---------------------------- MODULE Spec2Model ----------------------------
(***************************************************************************)
(* A model of the sharded TCP stream reassembler of rust_core              *)
(* (stream/stream_tcp.rs, stream/stream.rs) and of the worker pool that    *)
(* feeds it (processor/worker.rs, processor/processor.rs).                 *)
(*                                                                         *)
(* Sequence numbers are u32 in the source.  TLC's integers are 32-bit      *)
(* signed, so the sequence space is scaled to 0 .. SeqMod-1 and every      *)
(* wrapping_add / wrapping_sub is taken modulo SeqMod; the unsigned        *)
(* comparisons of the source stay plain comparisons on 0 .. SeqMod-1.      *)
(* The longest payload handed to the reassembler, the 12-byte datagram     *)
(* of process_batch, is shorter than half of the scaled space, as every    *)
(* payload is shorter than 2^31.                                           *)
(*                                                                         *)
(* Fields of TcpStream that the modelled operations write but never read   *)
(* (seq, isn, last_ack, window_size, mss, total_bytes, end_seq,            *)
(* sack_blocks) are left out; so is the content of the segment pool,       *)
(* whose segments are fully re-initialised by get_segment_from_pool        *)
(* before use (its mutex is a lock of the callers' specification).         *)
(***************************************************************************)
EXTENDS Integers, Sequences, FiniteSets, TLC

(***************************************************************************)
(* Bounds of the model.                                                    *)
(***************************************************************************)
\* size of the (scaled) sequence-number space; 2^32 in the source
SeqMod == 32
\* longest payload of a packet, in bytes
MaxLen == 2
\* number of packets handed to the reassembler in one behaviour
MaxPackets == 3
\* ShardConfig.shard_count
ShardCount == 2
\* TcpReassembler.max_streams (1024 in the source), scaled
max_streams == 2
\* number of worker threads of the pool (num_cpus::get() in the source)
NumWorkers == 2
\* capacity of a worker mailbox (100 in the source), scaled
MailboxCap == 1

(***************************************************************************)
(* Program constants: the TCP flag bits.                                   *)
(***************************************************************************)
TCP_FIN == 1
TCP_SYN == 2
TCP_RST == 4
TCP_PSH == 8
TCP_ACK == 16

HasFlag(flags, bit) == (flags \div bit) % 2 = 1

\* Option<T>: None is the empty sequence, Some(x) the one-element sequence.
None == << >>
Some(x) == << x >>
IsSome(o) == Len(o) = 1
Unwrap(o) == o[1]

SeqNums == 0 .. (SeqMod - 1)
wrapping_add(a, b) == (a + b) % SeqMod
wrapping_sub(a, b) == ((a - b) + SeqMod) % SeqMod

\* payload bytes
Bytes == {1, 2}
\* a payload of n bytes, all equal to b
Fill(n, b) == [i \in 1 .. n |-> b]
Payloads == { << >> } \cup { Fill(n, b) : n \in 1 .. MaxLen, b \in Bytes }
DataPayloads == Payloads \ { << >> }

(***************************************************************************)
(* Flow keys: format!("{}:{}-{}:{}", source_ip, src_port, dest_ip,         *)
(* dst_port).                                                              *)
(***************************************************************************)
K1 == "3232235777:12345-3232235778:80"
K2 == "3232235779:54321-3232235780:443"
K3 == "3232235777:1234-3232235778:80"
K4 == "3232235781:40000-3232235782:8443"
FlowKeys == {K1, K2, K3, K4}

\* std DefaultHasher (SipHash-1-3, zero keys) of the key string followed by
\* the 0xff terminator that str::hash writes, reduced modulo 2520 (the lcm
\* of 1 .. 10), so that DefaultHash(k) % n is the source's hash % n for
\* every shard count n <= 10.
DefaultHash(key) ==
    CASE key = K1 -> 2146
      [] key = K2 -> 608
      [] key = K3 -> 367
      [] key = K4 -> 380


(***************************************************************************)
(* Maps (DashMap, BTreeMap) are functions; the empty map is << >>.         *)
(***************************************************************************)
EmptyMap == << >>
Put(f, k, v) == [x \in (DOMAIN f) \cup {k} |-> IF x = k THEN v ELSE f[x]]
RemoveKey(f, k) == [x \in (DOMAIN f) \ {k} |-> f[x]]
Min(S) == CHOOSE x \in S : \A y \in S : x <= y

(***************************************************************************)
(* Wrap-aware sequence comparison (TcpReassembler::seq_compare and the     *)
(* free function of the same body).  `as i32` is AsSigned; i32::MAX is     *)
(* IntMax; abs() of i32::MIN is i32::MIN in a release build.               *)
(***************************************************************************)
IntMax == (SeqMod \div 2) - 1
IntMin == 0 - (SeqMod \div 2)
AsSigned(d) == IF 2 * d >= SeqMod THEN d - SeqMod ELSE d
i32_abs(x) == IF x = IntMin THEN IntMin ELSE IF x < 0 THEN 0 - x ELSE x

seq_compare(seq1, seq2) ==
    IF seq1 = seq2 THEN 0
    ELSE LET diff == AsSigned(wrapping_sub(seq1, seq2))
         IN  IF i32_abs(diff) < IntMax THEN diff
             ELSE IF diff > 0 THEN 0 - 1 ELSE 1

(***************************************************************************)
(* StreamStats and TcpStream.                                              *)
(***************************************************************************)
StreamStats_default(t) ==
    [packet_count |-> 0, byte_count |-> 0, last_seen |-> t, gaps_detected |-> 0,
     retransmissions |-> 0, out_of_order |-> 0, reassambled_errors |-> 0]

TcpStream_new(t) ==
    [state |-> "Closed", base_seq |-> 0, next_seq |-> 0, last_seen |-> t,
     established |-> FALSE, fin_seq |-> None, segments |-> EmptyMap,
     stats |-> StreamStats_default(t), reassembled_data |-> << >>]

\* get_segment_from_pool / TcpSegment::new
TcpSegment_new(seq, data, t) ==
    [data |-> data, end_seq |-> wrapping_add(seq, Len(data)), received |-> t,
     retransmit_count |-> 0, last_retransmit |-> None]

\* update_stats(StreamEstablished | StreamClosed): packet_count += 1
count_packet(stream) ==
    [stream EXCEPT !.stats.packet_count = @ + 1]

\* handle_error: reassambled_errors += 1
handle_error(stream) ==
    [stream EXCEPT !.stats.reassambled_errors = @ + 1]

(***************************************************************************)
(* handle_tcp_flags: the connection state machine, driven by the flags of  *)
(* a packet of an existing stream.                                         *)
(***************************************************************************)
state_transition(stream, seq, flags) ==
    LET syn == HasFlag(flags, TCP_SYN)
        ack == HasFlag(flags, TCP_ACK)
        fin == HasFlag(flags, TCP_FIN)
        st  == stream.state
    IN  CASE st = "Closed" ->
               IF syn THEN [stream EXCEPT !.state = "SynReceived"]
               ELSE handle_error(stream)
          [] st = "SynSent" ->
               IF syn /\ ack THEN count_packet([stream EXCEPT !.state = "Established"])
               ELSE handle_error(stream)
          [] st = "SynReceived" ->
               IF ack THEN count_packet([stream EXCEPT !.state = "Established"])
               ELSE handle_error(stream)
          [] st = "Established" ->
               IF fin THEN [stream EXCEPT !.state = "CloseWait", !.fin_seq = Some(seq)]
               ELSE IF ack THEN [stream EXCEPT !.state = "FinWait1"]
               ELSE stream
          [] st = "FinWait1" ->
               IF ack THEN [stream EXCEPT !.state = "FinWait2"] ELSE stream
          [] st = "FinWait2" ->
               IF fin THEN [stream EXCEPT !.state = "Closing"] ELSE stream
          [] st = "CloseWait" ->
               IF fin THEN [stream EXCEPT !.state = "LastAck"] ELSE stream
          [] st = "Closing" ->
               IF ack THEN [stream EXCEPT !.state = "TimeWait"] ELSE stream
          [] st = "LastAck" ->
               IF ack THEN count_packet([stream EXCEPT !.state = "Closed"])
               ELSE stream
          [] st = "TimeWait" -> stream

\* a packet's RST flag left unread
rst_ignored(stream, flags) == stream

\* lines 924-928: RST closes the stream
rst_handling(stream, flags) ==
    IF HasFlag(flags, TCP_RST)
    THEN count_packet([stream EXCEPT !.state = "Closed"])
    ELSE stream

handle_tcp_flags(stream, seq, flags) ==
    rst_handling(state_transition(stream, seq, flags), flags)

(***************************************************************************)
(* handle_overlapping_segment: resolve the overlaps of [seq, seq+len) with *)
(* the buffered segments under the reassembly policy.  The overlapping     *)
(* segments are visited in key order; the first one the policy keeps ends  *)
(* the visit with "discard the new segment", the others are removed.       *)
(***************************************************************************)
Policies == {"First", "Last", "Windows", "Linux", "Solaris", "LinuxOld"}

\* the overlap test of the source: plain u32 comparisons
ranges_overlap(seq, new_end, existing_seq, existing_end) ==
    seq < existing_end /\ new_end > existing_seq

overlapping_segments(segments, seq, new_end) ==
    { e \in DOMAIN segments : ranges_overlap(seq, new_end, e, segments[e].end_seq) }

use_original(policy, existing_seq, existing_end, seq, new_end) ==
    LET original_starts_before == seq_compare(existing_seq, seq) < 0
        original_ends_after    == seq_compare(existing_end, new_end) > 0
        original_ends_same     == existing_end = new_end
        original_starts_same   == existing_seq = seq
    IN  CASE policy = "First"    -> TRUE
          [] policy = "Last"     -> FALSE
          [] policy = "Windows"  -> ~original_starts_before
          [] policy = "Linux"    ->
               ~(original_starts_before \/ (original_starts_same /\ original_ends_after))
          [] policy = "Solaris"  ->
               original_ends_after
               \/ (original_starts_before /\ (original_ends_same \/ original_ends_after))
          [] policy = "LinuxOld" ->
               original_starts_before \/ (original_starts_same /\ original_ends_after)

RECURSIVE resolve_overlaps(_, _, _, _, _, _)
resolve_overlaps(policy, all, segments, todo, seq, new_end) ==
    IF todo = {} THEN [segments |-> segments, discard |-> FALSE]
    ELSE LET e == Min(todo)
         IN  IF use_original(policy, e, all[e].end_seq, seq, new_end)
             THEN [segments |-> segments, discard |-> TRUE]
             ELSE resolve_overlaps(policy, all, RemoveKey(segments, e),
                                   todo \ {e}, seq, new_end)

handle_overlapping_segment(policy, segments, seq, payload) ==
    LET new_end == wrapping_add(seq, Len(payload))
    IN  resolve_overlaps(policy, segments, segments,
                         overlapping_segments(segments, seq, new_end), seq, new_end)

(***************************************************************************)
(* handle_in_order_segment: starting at base_seq, concatenate the buffered *)
(* segments that follow one another (an empty segment advances by one      *)
(* sequence number), remove them, and move next_seq and base_seq.          *)
(***************************************************************************)
\* a walk that advances by one sequence number whatever the segment holds
RECURSIVE walk_segments_by_one(_, _, _)
walk_segments_by_one(segments, current_seq, acc) ==
    IF current_seq \in DOMAIN segments
    THEN walk_segments_by_one(segments, wrapping_add(current_seq, 1),
                              Append(acc, [seq |-> current_seq,
                                           data |-> segments[current_seq].data]))
    ELSE [chunks |-> acc, current_seq |-> current_seq]

RECURSIVE walk_segments(_, _, _)
\* the loop of lines 449-474; acc is the list of [seq, data] visited so far
walk_segments(segments, current_seq, acc) ==
    IF current_seq \in DOMAIN segments
    THEN LET d == segments[current_seq].data
             step == IF Len(d) = 0 THEN 1 ELSE Len(d)
         IN  walk_segments(segments, wrapping_add(current_seq, step),
                           Append(acc, [seq |-> current_seq, data |-> d]))
    ELSE [chunks |-> acc, current_seq |-> current_seq]

RECURSIVE concat_chunks(_)
concat_chunks(chunks) ==
    IF chunks = << >> THEN << >>
    ELSE chunks[1].data \o concat_chunks(Tail(chunks))

remove_processed(segments, chunks) ==
    LET gone == { chunks[i].seq : i \in DOMAIN chunks }
    IN  [x \in (DOMAIN segments) \ gone |-> segments[x]]

\* the per-key entry of TcpReassembler.stream_stats, when there is one
bump_global_stats(stream_stats, key, nbytes, t) ==
    IF key \in DOMAIN stream_stats
    THEN [stream_stats EXCEPT ![key].packet_count = @ + 1,
                              ![key].byte_count = @ + nbytes,
                              ![key].last_seen = t]
    ELSE stream_stats

\* lines 476-518, after the loop: w is what the loop visited and where it
\* stopped
finish_in_order(stream, stream_stats, key, t, w) ==
    LET result == concat_chunks(w.chunks)
        left   == remove_processed(stream.segments, w.chunks)
    IN  [stream |-> [stream EXCEPT
                       !.segments = left,
                       !.next_seq = w.current_seq,
                       !.base_seq = IF DOMAIN left # {} THEN Min(DOMAIN left)
                                    ELSE w.current_seq,
                       !.reassembled_data = @ \o result,
                       !.stats.packet_count = @ + 1,
                       !.stats.byte_count = @ + Len(result)],
         stream_stats |-> bump_global_stats(stream_stats, key, Len(result), t),
         ret |-> IF result # << >> THEN Some(result) ELSE None,
         chunks |-> IF result # << >> THEN w.chunks ELSE << >>]

handle_in_order_segment(stream, stream_stats, key, t) ==
    IF stream.base_seq \notin DOMAIN stream.segments
    THEN [stream |-> stream, stream_stats |-> stream_stats, ret |-> None,
          chunks |-> << >>]
    ELSE finish_in_order(stream, stream_stats, key, t,
                         walk_segments(stream.segments, stream.base_seq, << >>))

(***************************************************************************)
(* TcpReassembler::process_packet.  A packet is                            *)
(* [key, seq, flags, payload]; r is the reassembler of one shard,          *)
(* [streams, stream_stats, policy]; t is the reading of Instant::now().    *)
(* The result is the reassembler after the call, the returned              *)
(* Option<Vec<u8>> and, as history, the [seq, data] pieces the             *)
(* returned bytes were taken from.                                         *)
(***************************************************************************)
TcpReassembler_new ==
    [streams |-> EmptyMap, stream_stats |-> EmptyMap, policy |-> "Windows"]

\* segments.insert(seq, segment) followed by "base_seq = smallest key"
insert_segment(stream, seq, payload, t) ==
    LET segs == Put(stream.segments, seq, TcpSegment_new(seq, payload, t))
    IN  [stream EXCEPT !.segments = segs, !.base_seq = Min(DOMAIN segs)]

\* The stream with the smallest last_seen strictly before now is removed
\* (its stream_stats entry stays).  Two streams of a shard never share a
\* last_seen: each call on the shard reads a later clock value.
find_and_remove_oldest_stream(streams, t) ==
    LET older == { k \in DOMAIN streams : streams[k].last_seen < t }
    IN  IF older = {} THEN streams
        ELSE RemoveKey(streams,
                       CHOOSE k \in older :
                           \A j \in older : streams[k].last_seen <= streams[j].last_seen)

control_flags(flags) ==
    HasFlag(flags, TCP_SYN) \/ HasFlag(flags, TCP_FIN) \/ HasFlag(flags, TCP_RST)

\* the reassembler with the stream of the key and the statistics map as
\* given, and what the call returns
stored(r, key, stream, stats, ret, chunks) ==
    [r |-> [r EXCEPT !.streams = Put(@, key, stream), !.stream_stats = stats],
     ret |-> ret, chunks |-> chunks]

\* "let result = self.handle_in_order_segment(..); return result"
return_in_order(r, key, h) ==
    stored(r, key, h.stream, h.stream_stats, h.ret, h.chunks)

\* lines 564-568: at max_streams the oldest stream makes room
make_room(streams, t) ==
    IF Cardinality(DOMAIN streams) >= max_streams
    THEN find_and_remove_oldest_stream(streams, t)
    ELSE streams

\* lines 570-590: the stream of a new flow, before its first segment
new_stream(pkt, t) ==
    LET syn == HasFlag(pkt.flags, TCP_SYN)
        len == Len(pkt.payload)
    IN  [TcpStream_new(t) EXCEPT
           !.base_seq = pkt.seq,
           !.next_seq = IF syn THEN wrapping_add(wrapping_add(pkt.seq, 1), len)
                        ELSE wrapping_add(pkt.seq, len),
           !.established = syn]

\* lines 600-610: the statistics entry of a new flow
new_stats(pkt, t) ==
    [StreamStats_default(t) EXCEPT !.packet_count = 1, !.byte_count = Len(pkt.payload)]

\* a new-flow branch that makes room whether or not the table is full
process_new_flow_always_evicting(r, pkt, t) ==
    IF pkt.payload = << >> /\ ~control_flags(pkt.flags)
    THEN [r |-> r, ret |-> None, chunks |-> << >>]
    ELSE return_in_order(
             [r EXCEPT !.streams = find_and_remove_oldest_stream(r.streams, t)], pkt.key,
             handle_in_order_segment(
                 insert_segment(new_stream(pkt, t), pkt.seq, pkt.payload, t),
                 Put(r.stream_stats, pkt.key, new_stats(pkt, t)), pkt.key, t))

\* lines 553-630: no stream for the key
process_new_flow(r, pkt, t) ==
    IF pkt.payload = << >> /\ ~control_flags(pkt.flags)
    THEN [r |-> r, ret |-> None, chunks |-> << >>]
    ELSE return_in_order(
             [r EXCEPT !.streams = make_room(r.streams, t)], pkt.key,
             handle_in_order_segment(
                 insert_segment(new_stream(pkt, t), pkt.seq, pkt.payload, t),
                 Put(r.stream_stats, pkt.key, new_stats(pkt, t)), pkt.key, t))

\* line 643: plain u32 comparison against next_seq.wrapping_sub(len)
is_retransmission(stream, seq, payload) ==
    seq < wrapping_sub(stream.next_seq, Len(payload)) /\ payload # << >>

\* lines 645-651: count the retransmission, return None
count_retransmission(r, key, stream) ==
    stored(r, key, [stream EXCEPT !.stats.retransmissions = @ + 1],
           IF key \in DOMAIN r.stream_stats
           THEN [r.stream_stats EXCEPT ![key].retransmissions = @ + 1]
           ELSE r.stream_stats,
           None, << >>)

\* lines 694-716: o is the answer of handle_overlapping_segment
after_overlap_policy(r, pkt, t, stream, o) ==
    IF ~o.discard
    THEN return_in_order(r, pkt.key,
             handle_in_order_segment(
                 insert_segment([stream EXCEPT !.segments = o.segments],
                                pkt.seq, pkt.payload, t),
                 r.stream_stats, pkt.key, t))
    ELSE stored(r, pkt.key, [stream EXCEPT !.segments = o.segments], r.stream_stats,
                Some(pkt.payload), << [seq |-> pkt.seq, data |-> pkt.payload] >>)

\* lines 663-722: the segment is in the buffer of stream
after_insert(r, pkt, t, stream) ==
    IF pkt.seq = stream.next_seq
    THEN return_in_order(r, pkt.key,
                         handle_in_order_segment(stream, r.stream_stats, pkt.key, t))
    ELSE IF overlapping_segments(stream.segments, pkt.seq,
                                 wrapping_add(pkt.seq, Len(pkt.payload))) # {}
    THEN after_overlap_policy(r, pkt, t, stream,
                              handle_overlapping_segment(r.policy, stream.segments,
                                                         pkt.seq, pkt.payload))
    ELSE stored(r, pkt.key, stream, r.stream_stats, None, << >>)

\* lines 642-722: last_seen and the flags are handled, stream is the result
after_flags(r, pkt, t, stream) ==
    IF is_retransmission(stream, pkt.seq, pkt.payload)
    THEN count_retransmission(r, pkt.key, stream)
    ELSE after_insert(r, pkt, t, insert_segment(stream, pkt.seq, pkt.payload, t))

\* lines 631-723: the stream exists
process_existing_flow(r, pkt, t) ==
    after_flags(r, pkt, t,
                handle_tcp_flags([r.streams[pkt.key] EXCEPT !.last_seen = t],
                                 pkt.seq, pkt.flags))

process_packet(r, pkt, t) ==
    IF pkt.key \notin DOMAIN r.streams
    THEN process_new_flow(r, pkt, t)
    ELSE process_existing_flow(r, pkt, t)

(***************************************************************************)
(* ShardedTcpReassembler.                                                  *)
(***************************************************************************)
Shards == 0 .. (ShardCount - 1)

\* a router that also looks at the packet's sequence number
shard_index_by_seq(stream_key, pkt) == (DefaultHash(stream_key) + pkt.seq) % ShardCount

\* DefaultHasher of the key, modulo shard_count; the packet is not used
get_smart_shard_index(stream_key, pkt) == DefaultHash(stream_key) % ShardCount

\* update_stream_stats, on the map of the ShardedTcpReassembler itself
update_stream_stats(stats, key, data_len, t) ==
    LET old == IF key \in DOMAIN stats THEN stats[key] ELSE StreamStats_default(t)
    IN  Put(stats, key, [old EXCEPT !.packet_count = @ + 1,
                                    !.byte_count = @ + data_len,
                                    !.last_seen = t])

\* lines 242-252: res is what the shard's reassembler answered
shard_result(sh, stats, pkt, t, shard_index, res) ==
    [shards |-> [sh EXCEPT ![shard_index] = res.r],
     stream_stats |-> IF IsSome(res.ret)
                      THEN update_stream_stats(stats, pkt.key, Len(Unwrap(res.ret)), t)
                      ELSE stats,
     ret |-> res.ret, chunks |-> res.chunks, shard_index |-> shard_index]

\* lines 232-240: the packet goes to the reassembler of its shard
in_shard(sh, stats, pkt, t, shard_index) ==
    shard_result(sh, stats, pkt, t, shard_index, process_packet(sh[shard_index], pkt, t))

\* ShardedTcpReassembler::process_packet for a TCP packet
sharded_process_packet(sh, stats, pkt, t) ==
    in_shard(sh, stats, pkt, t, get_smart_shard_index(pkt.key, pkt))

(***************************************************************************)
(* The IP defragmenter (defrag/defrag.rs).  A packet is the record of the  *)
(* DecodedPacket fields the defragmenter reads or writes: source_ip,       *)
(* dest_ip, identification, fragment_offset (in units of 8 bytes),         *)
(* more_fragments, protocol and total_length of the IP header, and the     *)
(* payload.  Fragment.timestamp and the header copies kept in a            *)
(* FragmentGroup are written and never read, and are left out.  u16        *)
(* arithmetic wraps modulo U16, as in a release build.                     *)
(***************************************************************************)
U16 == 65536
MAX_FRAGMENT_SIZE == 65535
IP_HEADER_LEN == 20
PROTO_TCP == 6
PROTO_UDP == 17

\* FRAGMENT_TIMEOUT (30 s in the source), in clock ticks
FRAGMENT_TIMEOUT == 2
\* IpDefragmenter.max_groups (MAX_FRAGMENT_GROUPS = 10000 in the source)
max_groups == 2

Max(S) == CHOOSE x \in S : \A y \in S : x >= y
\* a value cast to, or computed in, u16
u16(x) == x % U16

\* Result<Option<DecodedPacket>>
Ok(v) == [ok |-> TRUE, val |-> v, err |-> ""]
Err(e) == [ok |-> FALSE, val |-> None, err |-> e]

\* Fragment::new at clock value t
Fragment_new(offset, data, more_fragments, t) ==
    [offset |-> offset, data |-> data, more_fragments |-> more_fragments,
     timestamp |-> t, length |-> u16(Len(data))]

\* Fragment::overlaps_with: the byte ranges, in u32
overlaps_with(self, other) ==
    /\ self.offset * 8 < other.offset * 8 + other.length
    /\ other.offset * 8 < self.offset * 8 + self.length

FragmentGroup_new(t) == [fragments |-> EmptyMap, last_update |-> t]

overlapping_fragments(group, fragment) ==
    { o \in DOMAIN group.fragments : overlaps_with(fragment, group.fragments[o]) }

\* FragmentGroup::remove_overlapping_fragments
remove_overlapping_fragments(group, fragment) ==
    [group EXCEPT !.fragments =
        [o \in (DOMAIN @) \ overlapping_fragments(group, fragment) |-> @[o]]]

insert_fragment(group, fragment) ==
    [group EXCEPT !.fragments = Put(@, fragment.offset, fragment)]

\* the Longest policy on an overlap: the loop breaks at the first
\* overlapping fragment, in offset order, that is not shorter than the new one
longest_should_add(group, fragment) ==
    \A o \in overlapping_fragments(group, fragment) :
        fragment.length > group.fragments[o].length

\* FragmentGroup::add_fragment; added is the Ok(bool) it returns
add_fragment(group, fragment, policy) ==
    IF fragment.offset \in DOMAIN group.fragments
    THEN CASE policy = "First" -> [group |-> group, added |-> FALSE]
           [] policy = "Last" ->
                [group |-> insert_fragment(group, fragment), added |-> TRUE]
           [] policy = "Longest" ->
                IF fragment.length > group.fragments[fragment.offset].length
                THEN [group |-> insert_fragment(group, fragment), added |-> TRUE]
                ELSE [group |-> group, added |-> FALSE]
    ELSE IF overlapping_fragments(group, fragment) # {}
    THEN CASE policy = "First" -> [group |-> group, added |-> FALSE]
           [] policy = "Last" ->
                [group |-> insert_fragment(remove_overlapping_fragments(group, fragment),
                                           fragment),
                 added |-> TRUE]
           [] policy = "Longest" ->
                IF longest_should_add(group, fragment)
                THEN [group |-> insert_fragment(
                                    remove_overlapping_fragments(group, fragment),
                                    fragment),
                      added |-> TRUE]
                ELSE [group |-> group, added |-> FALSE]
    ELSE [group |-> insert_fragment(group, fragment), added |-> TRUE]

\* a variant of the completeness walk that only looks for a last fragment
walk_fragments_any_last(fragments, rest, expected_offset, has_last_fragment) ==
    \E o \in DOMAIN fragments : ~fragments[o].more_fragments

\* the loop of FragmentGroup::is_complete over the fragments still to visit,
\* in offset order
RECURSIVE walk_fragments(_, _, _, _)
walk_fragments(fragments, rest, expected_offset, has_last_fragment) ==
    IF rest = {} THEN has_last_fragment
    ELSE IF Min(rest) # expected_offset THEN FALSE
    ELSE walk_fragments(fragments, rest \ {Min(rest)},
                        u16(Min(rest) + (u16(fragments[Min(rest)].length + 7) \div 8)),
                        has_last_fragment \/ ~fragments[Min(rest)].more_fragments)

\* FragmentGroup::is_complete
is_complete(group) ==
    /\ DOMAIN group.fragments # {}
    /\ walk_fragments(group.fragments, DOMAIN group.fragments, 0, FALSE)

\* the end of a fragment in bytes, as reassemble computes it in u16
fragment_end(fragment) == u16(u16(fragment.offset * 8) + fragment.length)

\* the buffer length of reassemble
reassembled_length(group) ==
    Max({0} \cup { fragment_end(group.fragments[o]) : o \in DOMAIN group.fragments })

\* the fragments whose copy covers byte i (1-based) of the buffer
covering(group, i) ==
    { o \in DOMAIN group.fragments :
        /\ u16(o * 8) < i
        /\ i <= u16(o * 8) + Len(group.fragments[o].data) }

\* FragmentGroup::reassemble: a zero-filled buffer, every fragment copied
\* at its byte offset in offset order; InvalidFragment when a copy would
\* run past the buffer
reassemble(group) ==
    IF ~is_complete(group) THEN Err("IncompleteFragment")
    ELSE IF \E o \in DOMAIN group.fragments :
                u16(o * 8) + Len(group.fragments[o].data) > reassembled_length(group)
    THEN Err("InvalidFragment")
    ELSE Ok([i \in 1 .. reassembled_length(group) |->
                IF covering(group, i) = {} THEN 0
                ELSE group.fragments[Max(covering(group, i))].data[
                        i - u16(Max(covering(group, i)) * 8)]])

\* FragmentGroup::is_expired
is_expired(group, t) == t - group.last_update > FRAGMENT_TIMEOUT

DefragStats_new ==
    [total_fragments |-> 0, total_length |-> 0, expired_groups |-> 0,
     reassembled_packets |-> 0]

\* IpDefragmenter::new
IpDefragmenter_new ==
    [fragments |-> EmptyMap, stats |-> DefragStats_new, policy |-> "First",
     max_groups |-> max_groups]

expired_keys(d, t) == { k \in DOMAIN d.fragments : is_expired(d.fragments[k], t) }

\* IpDefragmenter::cleanup_expired_groups
cleanup_expired_groups(d, t) ==
    [d EXCEPT !.fragments = [k \in (DOMAIN @) \ expired_keys(d, t) |-> @[k]],
              !.stats.expired_groups = @ + Cardinality(expired_keys(d, t))]

\* IpDefragmenter::validate_fragment_packet
validate_fragment_packet(packet) ==
    /\ ~(packet.fragment_offset > u16(MAX_FRAGMENT_SIZE))
    /\ ~(Len(packet.payload) > MAX_FRAGMENT_SIZE)
    /\ ~(packet.protocol # PROTO_TCP /\ packet.protocol # PROTO_UDP)

\* IpDefragmenter::create_reassembled_packet
create_reassembled_packet(original, reassembled_data) ==
    [original EXCEPT !.fragment_offset = 0,
                     !.more_fragments = FALSE,
                     !.total_length = u16(Len(reassembled_data) + IP_HEADER_LEN),
                     !.payload = reassembled_data]

group_key(packet) == << packet.source_ip, packet.dest_ip, packet.identification >>

\* a variant of the completion branch that keeps the group in the table
completed_keeping_group(d, packet, key, data) ==
    IF ~data.ok THEN [d |-> d, ret |-> Err(data.err)]
    ELSE [d |-> [d EXCEPT !.stats.reassembled_packets = @ + 1],
          ret |-> Ok(Some(create_reassembled_packet(packet, data.val)))]

\* lines 486-510: the group of key is complete and data is what reassemble
\* returned
completed(d, packet, key, data) ==
    IF ~data.ok THEN [d |-> d, ret |-> Err(data.err)]
    ELSE [d |-> [d EXCEPT !.stats.reassembled_packets = @ + 1,
                          !.fragments = RemoveKey(@, key)],
          ret |-> Ok(Some(create_reassembled_packet(packet, data.val)))]

\* lines 485-516: the fragment was added and the group touched
after_add(d, packet, key) ==
    IF is_complete(d.fragments[key])
    THEN completed(d, packet, key, reassemble(d.fragments[key]))
    ELSE [d |-> d, ret |-> Ok(None)]

\* lines 468-483: res is what add_fragment answered
added_fragment(d, packet, key, t, res) ==
    IF ~res.added
    THEN [d |-> [d EXCEPT !.fragments[key] = res.group], ret |-> Ok(None)]
    ELSE after_add([d EXCEPT !.fragments[key] = [res.group EXCEPT !.last_update = t]],
                   packet, key)

\* lines 454-468: the group of key exists in d; the statistics, then the add
in_group(d, packet, key, t) ==
    added_fragment([d EXCEPT !.stats.total_fragments = @ + 1,
                             !.stats.total_length = @ + Len(packet.payload)],
                   packet, key, t,
                   add_fragment(d.fragments[key],
                                Fragment_new(packet.fragment_offset, packet.payload,
                                             packet.more_fragments, t),
                                d.policy))

\* a variant of the cap check that always makes room for a new key
with_group_uncapped(d, packet, key, t) ==
    IF key \in DOMAIN d.fragments THEN in_group(d, packet, key, t)
    ELSE in_group([d EXCEPT !.fragments = Put(@, key, FragmentGroup_new(t))],
                  packet, key, t)

\* lines 446-462: the cap, then entry(key).or_insert_with
with_group(d, packet, key, t) ==
    IF Cardinality(DOMAIN d.fragments) >= d.max_groups /\ key \notin DOMAIN d.fragments
    THEN [d |-> d, ret |-> Err("TooManyFragments")]
    ELSE IF key \in DOMAIN d.fragments THEN in_group(d, packet, key, t)
    ELSE in_group([d EXCEPT !.fragments = Put(@, key, FragmentGroup_new(t))],
                  packet, key, t)

\* IpDefragmenter::process_packet at clock value t
defrag_process_packet(d, packet, t) ==
    IF ~validate_fragment_packet(packet) THEN [d |-> d, ret |-> Ok(None)]
    ELSE with_group(cleanup_expired_groups(d, t), packet, group_key(packet), t)

(***************************************************************************)
(* State.                                                                  *)
(*   shards, stream_stats  the ShardedTcpReassembler: one TcpReassembler   *)
(*                         per shard, and its own statistics map           *)
(*   now                   the clock (Instant::now()); every call reads a  *)
(*                         later value than the call before                *)
(*   ret                   what the last process_packet call returned      *)
(* History kept for the properties:                                        *)
(*   npkts       number of packets handed in                               *)
(*   last        the last call: its packet, the stream of the packet's key *)
(*               before the call, the shard it was routed to               *)
(*   routed      the (key, shard) pairs seen by the router                 *)
(*   overflowed  a new flow has met a flow table at max_streams            *)
(*   solo        per flow key, a reassembler that is handed the packets of *)
(*               that key only                                             *)
(*   log         per call, the packet, the result and the pieces returned  *)
(*   inflight    per caller, its process_packet call that has left the     *)
(*               shard and has not yet returned: the packet, the answer of *)
(*               the shard's reassembler, the stream before                *)
(*   plan        the contiguous segments of a flow that are to arrive, in  *)
(*               sequence-number order                                     *)
(* The WorkerPool:                                                         *)
(*   mailbox     per worker, the tasks sent to it and not yet received     *)
(*   next_worker the round-robin cursor of submit                          *)
(*   submitted   history: the packets in the order in which submit was     *)
(*               called with them, each with the packets of its flow for   *)
(*               which submit had returned by then                         *)
(* The IpDefragmenter:                                                     *)
(*   defrag      the defragmenter: fragment table, statistics, policy and  *)
(*               max_groups                                                *)
(*   dnow        the clock the defragmenter reads                          *)
(*   dret        what the last IpDefragmenter::process_packet returned     *)
(*   dlast       history: the last call, its packet, the defragmenter      *)
(*               before it, the clock value it read, the number of calls   *)
(*               so far, and whether set_max_groups has put the cap below  *)
(*               the number of groups then in the table                    *)
(*   dlog        history: per call, the packet and the result              *)
(*   fplan       the fragments of one datagram that are to arrive, in      *)
(*               offset order                                              *)
(* Cleanup and the shard locks:                                            *)
(*   swept       history: the last cleanup_all pass, the shards before it, *)
(*               the clock value it read, and the number of passes         *)
(*   lock        per shard, the thread that holds its write lock, 0 when   *)
(*               the lock is free                                          *)
(*   pc          per thread, where it stands in process_packet or          *)
(*               cleanup_all                                               *)
(* The life cycle of the WorkerPool:                                       *)
(*   shutdown_flag  WorkerPool.shutdown_flag                               *)
(*   alive       per worker, its receive loop has not ended                *)
(*   sending     the submit calls that stand in send().await: worker and   *)
(*               packet                                                    *)
(*   closing     where a running shutdown() stands: the worker it signals  *)
(*               next, NumWorkers when it joins; None when none runs       *)
(*   dropping    where a running drop() stands: the worker it signals      *)
(*               next, NumWorkers when it sleeps; None when none runs      *)
(*   pool_ret    history: the last call of the pool that returned, what it *)
(*               returned, and how many submit calls were refused and      *)
(*               shutdown calls repeated                                   *)
(* The background tasks of the ShardedTcpReassembler:                      *)
(*   running     the AtomicBool start_background_tasks returns             *)
(*   tasks       per background task, whether it loops or has ended, and   *)
(*               the passes it ran after shutdown() was called             *)
(*   shut        shutdown() has been called                                *)
(* The comparison of two sequence numbers:                                 *)
(*   sa, sb      the arguments                                             *)
(*   cmp         what seq_compare and is_seq_after returned for them       *)
(* The connection state machine on its own:                                *)
(*   fsm         a stream, the flags of a packet, and the stream after     *)
(*               handle_tcp_flags                                          *)
(* A fragment group on its own:                                            *)
(*   fg          the group's policy, the group, and the last add_fragment  *)
(*               call: the group before it, its fragment and its answer    *)
(* Two PacketProcessors that are handed the same frames:                   *)
(*   paths       the defragmenter and the reassembler of the one driven by *)
(*               process_packet, with its WorkerPool (the mailboxes, the   *)
(*               cursor, the submit that stands in send().await, the frame *)
(*               each worker has in hand), and of the one driven by        *)
(*               process_batch; per frame, the data of the                 *)
(*               ProcessingResult of either                                *)
(* The locks of the ShardedTcpReassembler, with their readers:             *)
(*   rw          per shard, the holders of its RwLock and of the locks     *)
(*               inside its TcpReassembler (the streams map, a stream, the *)
(*               statistics map, the segment pool, a segment's data); the  *)
(*               holder of the sharded statistics map; per caller, its     *)
(*               call and how far it is                                    *)
(***************************************************************************)
VARIABLES shards, stream_stats, now, ret, npkts, last, routed, overflowed, solo, log,
          inflight, plan, mailbox, next_worker, submitted,
          defrag, dnow, dret, dlast, dlog, fplan,
          swept, lock, pc, shutdown_flag, alive, sending, closing, dropping, pool_ret,
          running, tasks, shut, sa, sb, cmp, fsm, fg, paths, rw

vars == << shards, stream_stats, now, ret, npkts, last, routed, overflowed, solo, log,
           inflight, plan, mailbox, next_worker, submitted,
           defrag, dnow, dret, dlast, dlog, fplan,
           swept, lock, pc, shutdown_flag, alive, sending, closing, dropping, pool_ret,
           running, tasks, shut, sa, sb, cmp, fsm, fg, paths, rw >>

reassembler_vars == << shards, stream_stats, now, ret, npkts, last, routed, overflowed,
                       solo, log, inflight >>
pool_vars == << mailbox, next_worker, submitted >>
defrag_vars == << defrag, dnow, dret, dlast, dlog, fplan >>
lock_vars == << lock, pc >>
life_vars == << shutdown_flag, alive, sending, closing, dropping, pool_ret >>
bg_vars == << running, tasks, shut >>
cmp_vars == << sa, sb, cmp >>
\* the arguments and results of the functions specified on their own
pure_vars == << cmp_vars, fsm, fg, paths, rw >>
\* what the reassembler's and the pool's packet actions leave alone
other_vars == << defrag_vars, swept, lock_vars, life_vars, bg_vars, pure_vars >>
\* what the defragmenter's actions leave alone
not_defrag_vars == << reassembler_vars, plan, pool_vars, swept, lock_vars, life_vars,
                     bg_vars, pure_vars >>

Workers == 0 .. (NumWorkers - 1)

\* enum Task
Process(pkt) == [task |-> "Process", pkt |-> pkt]
ShutdownTask == [task |-> "Shutdown"]

NoPacket == [key |-> K1, seq |-> 0, flags |-> 0, payload |-> << >>]

\* TcpReassembler::set_policy
set_policy(r, policy) == [r EXCEPT !.policy = policy]

\* every shard, and the reassembler that sees one flow alone, is r0
InitReassemblerAs(r0) ==
    /\ shards = [i \in Shards |-> r0]
    /\ stream_stats = EmptyMap
    /\ now = 0
    /\ ret = None
    /\ npkts = 0
    /\ last = [op |-> "init", pkt |-> NoPacket, pre |-> None, shard |-> 0]
    /\ routed = {}
    /\ overflowed = FALSE
    /\ solo = [k \in FlowKeys |-> [r |-> r0, stats |-> EmptyMap, ret |-> None]]
    /\ log = << >>
    /\ inflight = EmptyMap

InitReassembler == InitReassemblerAs(TcpReassembler_new)

\* WorkerPool::new: every worker with an empty channel, the cursor at 0
InitPool ==
    /\ mailbox = [w \in Workers |-> << >>]
    /\ next_worker = 0
    /\ submitted = << >>

NoFragment ==
    [source_ip |-> 0, dest_ip |-> 0, identification |-> 0, fragment_offset |-> 0,
     more_fragments |-> FALSE, protocol |-> PROTO_TCP, total_length |-> IP_HEADER_LEN,
     payload |-> << >>]

\* IpDefragmenter::new, nothing processed yet
InitDefrag ==
    /\ defrag = IpDefragmenter_new
    /\ dnow = 0
    /\ dret = Ok(None)
    /\ dlast = [op |-> "init", pkt |-> NoFragment, pre |-> IpDefragmenter_new, t |-> 0,
                n |-> 0, lowered |-> FALSE]
    /\ dlog = << >>

Threads == 1 .. 3
Idle == [at |-> "idle", shard |-> 0, pkt |-> NoPacket]

\* no cleanup pass yet, every shard lock free, every thread outside
InitShardLocks ==
    /\ swept = [n |-> 0, pre |-> [i \in Shards |-> TcpReassembler_new], t |-> 0]
    /\ lock = [i \in Shards |-> 0]
    /\ pc = [th \in Threads |-> Idle]

\* WorkerPool::new: the flag clear, every worker in its loop
InitLife ==
    /\ shutdown_flag = FALSE
    /\ alive = [w \in Workers |-> TRUE]
    /\ sending = { }
    /\ closing = None
    /\ dropping = None
    /\ pool_ret = [op |-> "new", ok |-> TRUE, err |-> "", refused |-> 0, again |-> 0]

BackgroundTasks == {"cleanup", "monitor"}

\* ShardedTcpReassembler::new: no background task started
InitBackground ==
    /\ running = FALSE
    /\ tasks = [b \in BackgroundTasks |-> [at |-> "none", late |-> 0]]
    /\ shut = FALSE

InitCompare ==
    /\ sa = 0
    /\ sb = 0
    /\ cmp = None

\* no call of handle_tcp_flags on its own
InitFsm == fsm = [pre |-> None, flags |-> 0, post |-> None]

\* a group of the given policy, as FragmentGroup::new makes it
InitGroupOf(policy) ==
    fg = [policy |-> policy, group |-> FragmentGroup_new(0), pre |-> FragmentGroup_new(0),
          fragment |-> None, added |-> FALSE]

InitGroup == InitGroupOf("First")

\* a lock nobody holds: no writer, no reader
NoHolder == [w |-> 0, r |-> {}]
InnerLocks == {"streams", "stream", "stream_stats", "segment_pool", "data"}
NumCallers == 2
Callers == 1 .. NumCallers
CallerIdle == [op |-> "idle", shard |-> 0, at |-> << >>, some |-> FALSE, expired |-> FALSE]

\* every lock free, every caller outside
InitCallers ==
    rw = [shard |-> [i \in Shards |-> NoHolder],
          inner |-> [i \in Shards |-> [l \in InnerLocks |-> NoHolder]],
          stats |-> NoHolder,
          th |-> [c \in Callers |-> CallerIdle]]

\* what PacketProcessor::with_config builds around a reassembler
PacketProcessor_new ==
    [defrag |-> IpDefragmenter_new, shards |-> [i \in Shards |-> TcpReassembler_new],
     stream_stats |-> EmptyMap, results |-> << >>]

\* two processors, the first with its WorkerPool: empty mailboxes, no
\* submit under way, no worker with a frame in hand
InitPaths ==
    paths = [single |-> PacketProcessor_new, batch |-> PacketProcessor_new,
             mailbox |-> [w \in Workers |-> << >>], next_worker |-> 0,
             sending |-> None, hand |-> [w \in Workers |-> None]]

InitOther ==
    /\ InitShardLocks
    /\ InitLife
    /\ InitBackground
    /\ InitFsm
    /\ InitGroup
    /\ InitPaths
    /\ InitCallers

Init ==
    /\ InitReassembler
    /\ InitPool
    /\ plan = << >>
    /\ InitDefrag
    /\ fplan = << >>
    /\ InitOther
    /\ InitCompare

\* the stream of a key in the shard that owns it, as an Option
OwnerShard(key) == shards[get_smart_shard_index(key, NoPacket)]
StreamOf(key) ==
    IF key \in DOMAIN OwnerShard(key).streams
    THEN Some(OwnerShard(key).streams[key]) ELSE None

\* the caller of the specifications in which one thread hands in the packets
Main == 0

\* a call that has not begun its guard block, and one that has left it
Received(pkt) ==
    [at |-> "received", pkt |-> pkt, pre |-> None, shard |-> 0, ret |-> None,
     alone |-> None]

\* lines 232-240 of ShardedTcpReassembler::process_packet, by caller c: the
\* shard is chosen, its write guard taken, the shard's reassembler handles
\* the packet at a clock value later than every one before, and the guard
\* is dropped at the end of the block.  The call has not returned; alone is
\* the answer of the reassembler that sees only the packets of this key.
InShard(c, pkt, logged) ==
    LET t == now + 1
        res == sharded_process_packet(shards, stream_stats, pkt, t)
        alone == process_packet(solo[pkt.key].r, pkt, t)
        pre == IF pkt.key \in DOMAIN shards[res.shard_index].streams
               THEN Some(shards[res.shard_index].streams[pkt.key]) ELSE None
    IN  /\ shards' = res.shards
        /\ now' = t
        /\ last' = [op |-> "in_shard", pkt |-> pkt, pre |-> pre, shard |-> res.shard_index]
        /\ routed' = routed \cup { << pkt.key, res.shard_index >> }
        /\ overflowed' = (overflowed
                          \/ (/\ pre = None
                              /\ ~(pkt.payload = << >> /\ ~control_flags(pkt.flags))
                              /\ Cardinality(DOMAIN shards[res.shard_index].streams)
                                    >= max_streams))
        /\ solo' = [solo EXCEPT ![pkt.key].r = alone.r]
        /\ log' = IF logged
                  THEN Append(log, [pkt |-> pkt, ret |-> res.ret, chunks |-> res.chunks])
                  ELSE log
        /\ inflight' = Put(inflight, c,
                           [at |-> "unlocked", pkt |-> pkt, pre |-> pre,
                            shard |-> res.shard_index, ret |-> res.ret,
                            alone |-> alone.ret])
        /\ npkts' = npkts + 1
        /\ UNCHANGED << stream_stats, ret >>

Unlocked(c) == c \in DOMAIN inflight /\ inflight[c].at = "unlocked"

\* lines 242-247 of ShardedTcpReassembler::process_packet, by caller c, with
\* the shard unlocked: when the shard returned data, update_stream_stats
\* reads the clock again and changes the sharded statistics; then the call
\* returns
Returns(c) ==
    /\ Unlocked(c)
    /\ LET call == inflight[c]
           key == call.pkt.key
       IN  /\ IF IsSome(call.ret)
              THEN /\ now' = now + 1
                   /\ stream_stats' = update_stream_stats(stream_stats, key,
                                                          Len(Unwrap(call.ret)), now + 1)
              ELSE UNCHANGED << now, stream_stats >>
           /\ ret' = call.ret
           /\ last' = [op |-> "process_packet", pkt |-> call.pkt, pre |-> call.pre,
                       shard |-> call.shard]
           /\ solo' = [solo EXCEPT ![key] =
                         [r |-> @.r,
                          stats |-> IF IsSome(call.alone)
                                    THEN update_stream_stats(@.stats, key,
                                                             Len(Unwrap(call.alone)),
                                                             now + 1)
                                    ELSE @.stats,
                          ret |-> call.alone]]
    /\ inflight' = RemoveKey(inflight, c)
    /\ UNCHANGED << shards, npkts, routed, overflowed, log >>

\* One call of ShardedTcpReassembler::process_packet by the one caller, as
\* far as the end of the guard block
CallWithin(pkt, logged, bound) ==
    /\ npkts < bound
    /\ Main \notin DOMAIN inflight
    /\ InShard(Main, pkt, logged)

\* the one caller's call returns
Return ==
    /\ Returns(Main)
    /\ UNCHANGED << plan, pool_vars, other_vars >>

Call(pkt, logged) == CallWithin(pkt, logged, MaxPackets)

(***************************************************************************)
(* Spec: packets of several flows, in any order.  A packet of a resident   *)
(* flow carries a sequence number next to the flow's next_seq; the first   *)
(* packet of a flow starts low or just before the wrap.                    *)
(***************************************************************************)
PSH_ACK == TCP_PSH + TCP_ACK

InitSeqs == {1, SeqMod - 1}
NearSeqs(n) == {wrapping_sub(n, 1), n, wrapping_add(n, 1)}
SeqChoices(key) ==
    IF IsSome(StreamOf(key)) THEN NearSeqs(Unwrap(StreamOf(key)).next_seq)
    ELSE InitSeqs

\* the packets of the given keys: a sequence number the key's stream admits,
\* and one of the given [flags, payload] kinds
Packets(keys, kinds) ==
    UNION { { [key |-> k, seq |-> q, flags |-> c.flags, payload |-> c.payload] :
                q \in SeqChoices(k), c \in kinds } : k \in keys }

SynPacket == [flags |-> TCP_SYN, payload |-> << >>]
DataKinds == { [flags |-> PSH_ACK, payload |-> Fill(1, 1)],
               [flags |-> PSH_ACK, payload |-> Fill(MaxLen, 2)] }

ProcessPacket ==
    /\ \E pkt \in Packets(FlowKeys, DataKinds \cup {SynPacket}) :
            Call(pkt, FALSE)
    /\ UNCHANGED << plan, pool_vars, other_vars >>

Next == ProcessPacket \/ Return

Spec == Init /\ [][Next]_vars

(***************************************************************************)
(* SpecInOrder: one flow whose data-bearing packets arrive in strict       *)
(* sequence-number order, each at the sequence number that follows the     *)
(* packet before; the first at any sequence number.                        *)
(***************************************************************************)
InOrderSeqs ==
    IF last.op = "process_packet"
    THEN { wrapping_add(last.pkt.seq, Len(last.pkt.payload)) }
    ELSE SeqNums

InOrderPacket ==
    /\ \E q \in InOrderSeqs, p \in DataPayloads :
            Call([key |-> K1, seq |-> q, flags |-> PSH_ACK, payload |-> p], TRUE)
    /\ UNCHANGED << plan, pool_vars, other_vars >>

NextInOrder == InOrderPacket \/ Return

SpecInOrder == Init /\ [][NextInOrder]_vars

(***************************************************************************)
(* SpecFlow: one flow, any mix of in-order, early, late and repeated       *)
(* packets.  The first packet comes at any sequence number; a later one at *)
(* most MaxLen before or after the stream's next_seq.                      *)
(***************************************************************************)
FlowSeqs ==
    IF IsSome(StreamOf(K1))
    THEN LET n == Unwrap(StreamOf(K1)).next_seq
         IN  { wrapping_add(n, d) : d \in 0 .. MaxLen }
             \cup { wrapping_sub(n, d) : d \in 1 .. MaxLen }
    ELSE SeqNums

FlowPacket ==
    /\ \E q \in FlowSeqs, c \in DataKinds \cup {SynPacket} :
            Call([key |-> K1, seq |-> q, flags |-> c.flags, payload |-> c.payload], TRUE)
    /\ UNCHANGED << plan, pool_vars, other_vars >>

NextFlow == FlowPacket \/ Return

SpecFlow == Init /\ [][NextFlow]_vars

(***************************************************************************)
(* SpecPermute: the contiguous segments of one flow, each arriving once,   *)
(* in any order.  The i-th segment of the plan is filled with the byte i.  *)
(* The flow starts where its segments, arriving in order, are each         *)
(* returned whole: not below MaxLen and with no wrap, so that only the     *)
(* order of arrival varies.                                                *)
(***************************************************************************)
PlanBases == { b \in SeqNums : b >= MaxLen /\ b + MaxLen * MaxPackets < SeqMod }

RECURSIVE SumTo(_, _)
SumTo(lens, n) == IF n = 0 THEN 0 ELSE lens[n] + SumTo(lens, n - 1)

Contiguous(base, lens) ==
    [i \in DOMAIN lens |->
        [seq |-> wrapping_add(base, SumTo(lens, i - 1)), payload |-> Fill(lens[i], i)]]

Plans ==
    UNION { { Contiguous(base, lens) : base \in PlanBases, lens \in [1 .. n -> {1, MaxLen}] } :
              n \in 2 .. MaxPackets }

InitPermute ==
    /\ InitReassembler
    /\ InitPool
    /\ plan \in Plans
    /\ InitDefrag
    /\ fplan = << >>
    /\ InitOther
    /\ InitCompare

Arrived(i) == \E j \in DOMAIN log : log[j].pkt.seq = plan[i].seq

PermutePacket ==
    /\ \E i \in DOMAIN plan :
            /\ ~Arrived(i)
            /\ Call([key |-> K1, seq |-> plan[i].seq, flags |-> PSH_ACK,
                     payload |-> plan[i].payload], TRUE)
    /\ UNCHANGED << plan, pool_vars, other_vars >>

NextPermute == PermutePacket \/ Return

SpecPermute == InitPermute /\ [][NextPermute]_vars

(***************************************************************************)
(* SpecPool: PacketProcessor::process_packet hands non-fragment TCP        *)
(* packets to WorkerPool::submit; every worker receives from its own       *)
(* channel and calls ShardedTcpReassembler::process_packet.  The packets   *)
(* of a key are its in-order one-byte segments from sequence number 1.     *)
(***************************************************************************)
SubmittedOf(key) == SelectSeq(submitted, LAMBDA e : e.pkt.key = key)

PoolKeys == {K1, K2, K3}

NextPacketOf(key) ==
    [key |-> key, seq |-> wrapping_add(1, Len(SubmittedOf(key))), flags |-> PSH_ACK,
     payload |-> Fill(1, 1)]

\* number of submit calls refused and of shutdown calls repeated
MaxRefused == 2

\* number of threads that call submit: the calls under way at a time
MaxSenders == 2

\* a variant of the flag test of submit that lets every call through
submit_refuses_never(flag) == FALSE

\* submit, line 194: the shutdown flag is set
submit_refuses(flag) == flag

HasRoom(w) == Len(mailbox[w]) < MailboxCap
\* no shutdown() and no drop() is under way and the pool has not been dropped
PoolUsable == closing = None /\ dropping = None /\ pool_ret.op # "drop"

Returned(op, ok, err) == [pool_ret EXCEPT !.op = op, !.ok = ok, !.err = err]

\* the packets of the submit calls that stand no more in send().await
Sent == { submitted[i].pkt : i \in DOMAIN submitted } \ { s.pkt : s \in sending }

\* WorkerPool::submit as far as send().await, lines 193-206: the test of the
\* shutdown flag, then the round-robin choice of the worker under the
\* cursor's mutex.  bound limits the calls that pass the test, MaxSenders
\* those that are under way.
Submit(pkt, bound) ==
    /\ PoolUsable
    /\ IF submit_refuses(shutdown_flag)
       THEN /\ pool_ret.refused < MaxRefused
            /\ pool_ret' = [Returned("submit", FALSE, "WorkerPool closed")
                               EXCEPT !.refused = @ + 1]
            /\ UNCHANGED << next_worker, submitted, sending >>
       ELSE /\ Len(submitted) < bound
            /\ Cardinality(sending) < MaxSenders
            /\ next_worker' = (next_worker + 1) % NumWorkers
            /\ sending' = sending \cup { [worker |-> next_worker, pkt |-> pkt] }
            /\ submitted' = Append(submitted,
                                   [pkt |-> pkt,
                                    after |-> { p \in Sent : p.key = pkt.key }])
            /\ UNCHANGED pool_ret
    /\ UNCHANGED << reassembler_vars, plan, mailbox, defrag_vars, swept, lock_vars,
                    bg_vars, pure_vars, shutdown_flag, alive, closing, dropping >>

\* sender.send(..).await of submit, lines 206-209: it completes when the
\* worker's channel has room, or fails because the receiver is gone; submit
\* returns
SendCompletes(s) ==
    /\ s \in sending
    /\ ~alive[s.worker] \/ HasRoom(s.worker)
    /\ sending' = sending \ {s}
    /\ IF alive[s.worker]
       THEN /\ mailbox' = [mailbox EXCEPT ![s.worker] = Append(@, Process(s.pkt))]
            /\ pool_ret' = Returned("submit", TRUE, "")
       ELSE /\ pool_ret' = Returned("submit", FALSE, "SendError")
            /\ UNCHANGED mailbox
    /\ UNCHANGED << reassembler_vars, plan, defrag_vars, swept, lock_vars, bg_vars,
                    pure_vars, next_worker, submitted, shutdown_flag, alive, closing,
                    dropping >>

\* every Sender of the channels is gone: drop() has returned and the
\* fields of the pool, its workers with their senders, have been dropped
SendersGone == pool_ret.op = "drop"

\* the loop of Worker::new, line 38: task_receiver.recv().await.  It takes
\* the first queued task, which frees its slot; on Task::Shutdown, and on
\* None (the channel is empty and every sender gone), the loop ends, which
\* drops the receiver and what is still queued.
WorkerRecv(w) ==
    /\ alive[w]
    /\ w \notin DOMAIN inflight
    /\ IF mailbox[w] = << >>
       THEN /\ SendersGone
            /\ alive' = [alive EXCEPT ![w] = FALSE]
            /\ UNCHANGED << mailbox, inflight >>
       ELSE IF Head(mailbox[w]).task = "Process"
       THEN /\ mailbox' = [mailbox EXCEPT ![w] = Tail(@)]
            /\ inflight' = Put(inflight, w, Received(Head(mailbox[w]).pkt))
            /\ alive' = alive
       ELSE /\ mailbox' = [mailbox EXCEPT ![w] = << >>]
            /\ alive' = [alive EXCEPT ![w] = FALSE]
            /\ UNCHANGED inflight
    /\ UNCHANGED << shards, stream_stats, now, ret, npkts, last, routed, overflowed, solo,
                    log, plan, next_worker, submitted, defrag_vars, swept, lock_vars,
                    bg_vars, pure_vars, shutdown_flag, sending, closing, dropping,
                    pool_ret >>

\* Worker::process_packet on the task received: the guard block of
\* ShardedTcpReassembler::process_packet
WorkerHandles(w) ==
    /\ w \in DOMAIN inflight
    /\ inflight[w].at = "received"
    /\ InShard(w, inflight[w].pkt, TRUE)
    /\ UNCHANGED << plan, pool_vars, other_vars >>

\* the rest of the call, and back to recv()
WorkerReturns(w) ==
    /\ Returns(w)
    /\ UNCHANGED << plan, pool_vars, other_vars >>

NextPool ==
    \/ \E k \in PoolKeys : Submit(NextPacketOf(k), MaxPackets)
    \/ \E s \in sending : SendCompletes(s)
    \/ \E w \in Workers : WorkerRecv(w)
    \/ \E w \in Workers : WorkerHandles(w)
    \/ \E w \in Workers : WorkerReturns(w)

SpecPool == Init /\ [][NextPool]_vars

(***************************************************************************)
(* Properties of Spec.                                                     *)
(***************************************************************************)
Called == last.op = "process_packet"
Resident(key, i) == key \in DOMAIN shards[i].streams

\* the last call was the first data-bearing packet, without SYN, of a key
\* that had no stream
NewFlowData ==
    /\ Called
    /\ last.pre = None
    /\ last.pkt.payload # << >>
    /\ ~HasFlag(last.pkt.flags, TCP_SYN)

\* C6: the first data-bearing packet (no SYN) of a key without a stream
\* creates the stream, is returned whole, leaves next_seq (and base_seq) at
\* seq + payload length and leaves no segment in the buffer.
C6_FirstPacketOfNewFlow ==
    NewFlowData =>
        /\ IsSome(StreamOf(last.pkt.key))
        /\ ret = Some(last.pkt.payload)
        /\ LET stream == Unwrap(StreamOf(last.pkt.key))
               next   == wrapping_add(last.pkt.seq, Len(last.pkt.payload))
           IN  /\ stream.next_seq = next
               /\ stream.base_seq = next
               /\ stream.segments = EmptyMap
               /\ stream.reassembled_data = last.pkt.payload

\* a new flow whose first packet crosses the wrap of the sequence space
C6_Witness ==
    /\ NewFlowData
    /\ Len(last.pkt.payload) = MaxLen
    /\ last.pkt.seq + MaxLen > SeqMod
    /\ ret = Some(last.pkt.payload)
    /\ npkts > 1

\* C8: every packet of a key is routed to one shard, the shard
\* DefaultHash(key) % ShardCount; a key is resident in no other shard, so it
\* is resident in at most one shard and never moves.
C8_ShardLocality ==
    /\ \A p \in routed : p[2] = DefaultHash(p[1]) % ShardCount
    /\ \A p \in routed, q \in routed : p[1] = q[1] => p[2] = q[2]
    /\ \A k \in FlowKeys, i \in Shards : Resident(k, i) => << k, i >> \in routed
    /\ \A k \in FlowKeys : Cardinality({ i \in Shards : Resident(k, i) }) <= 1

\* a key that received packets with different sequence numbers, while
\* another shard holds another key
C8_Witness ==
    /\ Called
    /\ last.pre # None
    /\ last.pkt.seq # Unwrap(last.pre).base_seq
    /\ Resident(last.pkt.key, last.shard)
    /\ \E k \in FlowKeys, i \in Shards : i # last.shard /\ Resident(k, i)

\* the stream and the statistics of a key in the reassembler that is handed
\* the packets of that key only
SoloStreamOf(key) ==
    IF key \in DOMAIN solo[key].r.streams
    THEN Some(solo[key].r.streams[key]) ELSE None
StatsOf(stats, key) == IF key \in DOMAIN stats THEN Some(stats[key]) ELSE None

\* C10: while no new flow has met a full flow table, the stream and the
\* statistics of every key are what they are when the packets of that key are
\* processed alone (so a call for one key changes nothing of another key),
\* and every call returns what it returns when the flow is processed alone.
C10_MultiFlowIndependence ==
    ~overflowed =>
        /\ \A k \in FlowKeys :
              /\ StreamOf(k) = SoloStreamOf(k)
              /\ StatsOf(OwnerShard(k).stream_stats, k)
                    = StatsOf(solo[k].r.stream_stats, k)
              /\ StatsOf(stream_stats, k) = StatsOf(solo[k].stats, k)
        /\ Called => ret = solo[last.pkt.key].ret

\* two flows resident in one shard, the last call a packet of one of them
\* that was returned
C10_Witness ==
    /\ ~overflowed
    /\ Called
    /\ last.pre # None
    /\ IsSome(ret)
    /\ \E k \in FlowKeys : k # last.pkt.key /\ Resident(k, last.shard)

(***************************************************************************)
(* Properties of SpecInOrder.                                              *)
(***************************************************************************)
\* C1: when the data-bearing packets of a flow arrive in strict
\* sequence-number order, from any initial sequence number, every call
\* returns exactly the payload of its packet.
C1_InOrderDelivery ==
    Called => ret = Some(last.pkt.payload)

(***************************************************************************)
(* Properties of SpecFlow.                                                 *)
(***************************************************************************)
\* the stream of the last packet's key, before and after the call
Pre == Unwrap(last.pre)
Post == Unwrap(StreamOf(last.pkt.key))

\* the last call was a data-bearing packet of an existing flow that starts
\* after the flow's next_seq
GapPacket ==
    /\ Called
    /\ last.pre # None
    /\ last.pkt.payload # << >>
    /\ wrapping_sub(last.pkt.seq, Pre.next_seq) \in 1 .. MaxLen

\* C3: a data-bearing packet that starts after next_seq of its flow is not
\* returned; it is kept in the buffer, next_seq stays, and out_of_order
\* grows by one.
C3_OutOfOrderBuffered ==
    GapPacket =>
        /\ ret = None
        /\ last.pkt.seq \in DOMAIN Post.segments
        /\ Post.segments[last.pkt.seq].data = last.pkt.payload
        /\ Post.next_seq = Pre.next_seq
        /\ Post.stats.out_of_order = Pre.stats.out_of_order + 1

\* the last packet repeats, byte for byte, the packet before it, which was
\* returned whole
DuplicateOfDelivered ==
    /\ Len(log) >= 2
    /\ log[Len(log)].pkt = log[Len(log) - 1].pkt
    /\ last.pkt.payload # << >>
    /\ log[Len(log) - 1].ret = Some(last.pkt.payload)

\* C4: a packet with the sequence number and the bytes of a segment that
\* was accepted returns None and adds one to retransmissions; of the stream,
\* only the statistics and last_seen change.
C4_RetransmissionSuppressed ==
    DuplicateOfDelivered =>
        /\ ret = None
        /\ Post.stats.retransmissions = Pre.stats.retransmissions + 1
        /\ [Post EXCEPT !.stats = Pre.stats, !.last_seen = Pre.last_seen] = Pre

\* the sequence numbers of the bytes returned by the i-th call, one entry
\* per returned byte
RECURSIVE chunk_positions(_)
chunk_positions(chunks) ==
    IF chunks = << >> THEN << >>
    ELSE [j \in 1 .. Len(chunks[1].data) |-> wrapping_add(chunks[1].seq, j - 1)]
         \o chunk_positions(Tail(chunks))

RECURSIVE returned_positions(_)
returned_positions(entries) ==
    IF entries = << >> THEN << >>
    ELSE chunk_positions(entries[1].chunks) \o returned_positions(Tail(entries))

\* C5: no sequence-number position of the flow is returned twice.
C5_AtMostOnce ==
    LET pos == returned_positions(log)
    IN  \A i \in DOMAIN pos, j \in DOMAIN pos : i # j => pos[i] # pos[j]

\* the flow began with an empty SYN at s and the last packet carries data at
\* s + 1
DataAfterSyn ==
    /\ Len(log) = 2
    /\ log[1].pkt.flags = TCP_SYN
    /\ log[1].pkt.payload = << >>
    /\ log[2].pkt.seq = wrapping_add(log[1].pkt.seq, 1)
    /\ log[2].pkt.payload # << >>
    /\ ~HasFlag(log[2].pkt.flags, TCP_SYN)

\* C7: an empty SYN at s returns None and creates the stream; the data
\* packet at s + 1 that follows is returned.
C7_SynConsumesOne ==
    /\ (Len(log) >= 1 /\ log[1].pkt.flags = TCP_SYN /\ log[1].pkt.payload = << >>)
          => (log[1].ret = None /\ IsSome(StreamOf(K1)))
    /\ DataAfterSyn => log[2].ret = Some(log[2].pkt.payload)

(***************************************************************************)
(* Properties of SpecPermute.                                              *)
(***************************************************************************)
RECURSIVE concat_returns(_)
concat_returns(entries) ==
    IF entries = << >> THEN << >>
    ELSE (IF IsSome(entries[1].ret) THEN Unwrap(entries[1].ret) ELSE << >>)
         \o concat_returns(Tail(entries))

RECURSIVE concat_payloads(_)
concat_payloads(segs) ==
    IF segs = << >> THEN << >>
    ELSE segs[1].payload \o concat_payloads(Tail(segs))

\* C2: once every segment of the plan has arrived, in whatever order, the
\* bytes returned for the flow, concatenated, are the payloads in
\* sequence-number order.
C2_ArrivalOrderInvariance ==
    (plan # << >> /\ Len(log) = Len(plan)) =>
        concat_returns(log) = concat_payloads(plan)

(***************************************************************************)
(* Properties of SpecPool.                                                 *)
(***************************************************************************)
\* submit had returned for a's packet when it was called with b's, and they
\* are packets of one flow
HandedBefore(a, b) == a.pkt \in b.after

\* the place of a packet in the order in which the reassembler handled the
\* packets, 0 when it has not been handled
HandledAt(pkt) ==
    IF \E n \in DOMAIN log : log[n].pkt = pkt
    THEN CHOOSE n \in DOMAIN log : log[n].pkt = pkt
    ELSE 0

\* C9: of two packets of a flow key, the one handed to submit first is
\* processed by the reassembler first.
C9_PerFlowArrivalOrder ==
    \A i \in DOMAIN submitted : \A j \in DOMAIN submitted :
        (HandedBefore(submitted[i], submitted[j]) /\ HandledAt(submitted[j].pkt) > 0)
            => /\ HandledAt(submitted[i].pkt) > 0
               /\ HandledAt(submitted[i].pkt) < HandledAt(submitted[j].pkt)

(***************************************************************************)
(* The defragmenter's actions.  A call reads the clock; the clock advances *)
(* between calls.                                                          *)
(***************************************************************************)
\* number of fragments of a datagram, and of calls in one behaviour
MaxFragments == 3

DefragRecord(pkt, res, logged) ==
    /\ defrag' = res.d
    /\ dret' = res.ret
    /\ dlast' = [op |-> "process_packet", pkt |-> pkt, pre |-> defrag, t |-> dnow,
                 n |-> dlast.n + 1, lowered |-> dlast.lowered]
    /\ dlog' = IF logged THEN Append(dlog, [pkt |-> pkt, ret |-> res.ret]) ELSE dlog

\* one call of IpDefragmenter::process_packet
DefragCall(pkt, logged) ==
    DefragRecord(pkt, defrag_process_packet(defrag, pkt, dnow), logged)

(***************************************************************************)
(* SpecDefragPlan: a payload is cut into fragments, every fragment but the *)
(* last of 8 or 16 bytes and with MF set, and the fragments arrive one by  *)
(* one in any order, each no later than FRAGMENT_TIMEOUT after the one     *)
(* before.                                                                 *)
(***************************************************************************)
FragmentPacket(offset, more_fragments, payload) ==
    [source_ip |-> 168430090, dest_ip |-> 185273099, identification |-> 12345,
     fragment_offset |-> offset, more_fragments |-> more_fragments,
     protocol |-> PROTO_TCP, total_length |-> u16(IP_HEADER_LEN + Len(payload)),
     payload |-> payload]

Fragmentation(lens) ==
    [i \in DOMAIN lens |->
        FragmentPacket(SumTo(lens, i - 1) \div 8, i < Len(lens), Fill(lens[i], i))]

FragmentLens ==
    UNION { { lens \in [1 .. n -> {4, 8, 16}] :
                /\ \A i \in 1 .. (n - 1) : lens[i] % 8 = 0
                /\ lens[n] < 16 } :
            n \in 2 .. MaxFragments }

FragPlans == { Fragmentation(lens) : lens \in FragmentLens }

InitDefragPlan ==
    /\ InitReassembler
    /\ InitPool
    /\ plan = << >>
    /\ InitDefrag
    /\ fplan \in FragPlans
    /\ InitOther
    /\ InitCompare

FragmentArrived(i) == \E j \in DOMAIN dlog : dlog[j].pkt = fplan[i]

FragmentArrives ==
    /\ \E i \in DOMAIN fplan : ~FragmentArrived(i) /\ DefragCall(fplan[i], TRUE)
    /\ UNCHANGED << not_defrag_vars, dnow, fplan >>

PlanTick ==
    /\ dnow - dlast.t < FRAGMENT_TIMEOUT
    /\ dnow' = dnow + 1
    /\ UNCHANGED << not_defrag_vars, defrag, dret, dlast, dlog, fplan >>

NextDefragPlan == FragmentArrives \/ PlanTick

SpecDefragPlan == InitDefragPlan /\ [][NextDefragPlan]_vars

RECURSIVE concat_fragments(_, _)
concat_fragments(fragments, n) ==
    IF n = 0 THEN << >> ELSE concat_fragments(fragments, n - 1) \o fragments[n].payload

\* C11: the fragments of a payload arrive in any order within the timeout:
\* every call before the last returns Ok(None), and the call that brings
\* the last missing fragment returns a packet whose payload is the payload
\* that was cut.
C11_FragmentReassembly ==
    \A j \in DOMAIN dlog :
        IF j < Len(fplan)
        THEN dlog[j].ret = Ok(None)
        ELSE /\ dlog[j].ret.ok
             /\ IsSome(dlog[j].ret.val)
             /\ Unwrap(dlog[j].ret.val).payload = concat_fragments(fplan, Len(fplan))

\* three fragments, the last one first and the first one last, with the
\* clock moving in between
C11_Witness ==
    /\ Len(fplan) = 3
    /\ Len(dlog) = 3
    /\ dlog[1].pkt = fplan[3]
    /\ dlog[3].pkt = fplan[1]
    /\ dlog[3].ret.ok /\ IsSome(dlog[3].ret.val)
    /\ dlast.t > FRAGMENT_TIMEOUT

(***************************************************************************)
(* SpecDefrag: packets of several datagrams, fragments or not, reach the   *)
(* defragmenter in any order while the clock moves past FRAGMENT_TIMEOUT.  *)
(* Datagrams differ in their identification.                               *)
(***************************************************************************)
Identifications == 1 .. (max_groups + 1)

\* offset, more_fragments and payload of the packets: the two fragments of
\* a 12-byte datagram, and an unfragmented packet of 4 and one of 8 bytes
FragmentShapes ==
    { << 0, TRUE, Fill(8, 1) >>, << 1, FALSE, Fill(4, 2) >>,
      << 0, FALSE, Fill(4, 2) >>, << 0, FALSE, Fill(8, 1) >> }

\* the last packet is an ICMP one, which validate_fragment_packet rejects
DefragPackets ==
    { [FragmentPacket(sh[1], sh[2], sh[3]) EXCEPT !.identification = id] :
        id \in Identifications, sh \in FragmentShapes }
    \cup { [FragmentPacket(0, TRUE, Fill(8, 1)) EXCEPT !.protocol = 1] }

DefragPacket ==
    /\ dlast.n < MaxFragments
    /\ \E pkt \in DefragPackets : DefragCall(pkt, FALSE)
    /\ UNCHANGED << not_defrag_vars, dnow, fplan >>

DefragTick ==
    /\ dnow <= FRAGMENT_TIMEOUT
    /\ dnow' = dnow + 1
    /\ UNCHANGED << not_defrag_vars, defrag, dret, dlast, dlog, fplan >>

\* the value set_max_groups is called with, as in test_max_groups_limit
GroupCaps == {1}

\* IpDefragmenter::set_max_groups
set_max_groups(d, n) == [d EXCEPT !.max_groups = n]

\* a call of set_max_groups that changes the cap
SetMaxGroups ==
    /\ \E n \in GroupCaps \ {defrag.max_groups} :
            /\ defrag' = set_max_groups(defrag, n)
            /\ dlast' = [dlast EXCEPT !.op = "set_max_groups", !.pre = defrag, !.t = dnow,
                                      !.lowered = @ \/ Cardinality(DOMAIN defrag.fragments) > n]
    /\ UNCHANGED << not_defrag_vars, dnow, dret, dlog, fplan >>

NextDefrag == DefragPacket \/ DefragTick \/ SetMaxGroups

SpecDefrag == Init /\ [][NextDefrag]_vars

DefragCalled == dlast.op = "process_packet"
\* the last call completed a group
Completed == DefragCalled /\ dret.ok /\ IsSome(dret.val)
\* the fragment table of the last call after its expiry pass
TableAfterExpiry == cleanup_expired_groups(dlast.pre, dlast.t).fragments
current_groups(d) == Cardinality(DOMAIN d.fragments)

\* what every completing call does to the packet and to reassembled_packets
CompletionPacket ==
    /\ Unwrap(dret.val).fragment_offset = 0
    /\ Unwrap(dret.val).more_fragments = FALSE
    /\ Unwrap(dret.val).total_length = IP_HEADER_LEN + Len(Unwrap(dret.val).payload)
    /\ group_key(dlast.pkt) \notin DOMAIN defrag.fragments
    /\ defrag.stats.reassembled_packets = dlast.pre.stats.reassembled_packets + 1

NotAFragment == dlast.pkt.fragment_offset = 0 /\ ~dlast.pkt.more_fragments

\* C13: in every state of the fragment table, process_packet on a packet
\* with fragment_offset 0 and more_fragments false returns that packet
\* unchanged and leaves the fragment table unchanged.
C13_PassThrough ==
    (DefragCalled /\ NotAFragment) =>
        /\ dret = Ok(Some(dlast.pkt))
        /\ defrag.fragments = dlast.pre.fragments

\* the last call was handed a valid packet whose key has no group
NewKeyArrived ==
    /\ DefragCalled
    /\ validate_fragment_packet(dlast.pkt)
    /\ group_key(dlast.pkt) \notin DOMAIN dlast.pre.fragments

\* the groups that were in the table before the last call and had not
\* expired are in the table unchanged
LiveGroupsUnchanged ==
    \A k \in DOMAIN TableAfterExpiry :
        k \in DOMAIN defrag.fragments /\ defrag.fragments[k] = dlast.pre.fragments[k]

Refused ==
    /\ dret = Err("TooManyFragments")
    /\ group_key(dlast.pkt) \notin DOMAIN defrag.fragments
    /\ LiveGroupsUnchanged

\* C14 as stated: the number of groups never exceeds max_groups, and a
\* fragment with a new key that arrives when the table holds max_groups
\* groups gets TooManyFragments, creates no group and changes no group that
\* has not expired.
C14_GroupCap ==
    /\ ~dlast.lowered => current_groups(defrag) <= defrag.max_groups
    /\ (NewKeyArrived /\ current_groups(dlast.pre) = dlast.pre.max_groups) => Refused

\* C14 amended: the number of groups never exceeds max_groups as long as
\* set_max_groups has not put the cap below the number of groups in the
\* table, and no call of process_packet leaves more groups than max_groups
\* unless there were as many before it; a fragment with a new key that
\* arrives when the table holds max_groups groups or more, none of which
\* has expired, gets TooManyFragments, creates no group and changes no
\* group.
C14_GroupCapAmended ==
    /\ ~dlast.lowered => current_groups(defrag) <= defrag.max_groups
    /\ DefragCalled =>
            \/ current_groups(defrag) <= defrag.max_groups
            \/ current_groups(defrag) <= current_groups(dlast.pre)
    /\ (/\ NewKeyArrived
        /\ current_groups(dlast.pre) >= dlast.pre.max_groups
        /\ expired_keys(dlast.pre, dlast.t) = {})
       => (Refused /\ defrag = dlast.pre)

\* a new key is refused by a full table some time after the groups were
\* made
C14_Witness ==
    /\ NewKeyArrived
    /\ current_groups(dlast.pre) = max_groups
    /\ dlast.pre.max_groups = max_groups
    /\ expired_keys(dlast.pre, dlast.t) = {}
    /\ dlast.t = FRAGMENT_TIMEOUT
    /\ dret = Err("TooManyFragments")

(***************************************************************************)
(* Cleanup of idle flows: TcpReassembler::cleanup_expired and              *)
(* ShardedTcpReassembler::cleanup_all.                                     *)
(***************************************************************************)
\* ShardConfig.timeout_secs (30 in the source), in clock ticks; it becomes
\* TcpReassembler.timeout_duration
timeout_secs == 2
\* the Duration::from_secs(30) of the retransmission test, in clock ticks
retransmit_secs == 2
\* number of cleanup passes in one behaviour
MaxPasses == 2

\* lines 741: the streams cleanup_expired removes
expired_streams(r, t) ==
    { k \in DOMAIN r.streams : r.streams[k].last_seen + timeout_secs <= t }

\* lines 757-770: the segments of a stream that stays which are removed
segment_expired(segment, t) ==
    IF segment.retransmit_count > 3 THEN TRUE
    ELSE IF IsSome(segment.last_retransmit)
    THEN t - Unwrap(segment.last_retransmit) > retransmit_secs
    ELSE t - segment.received > timeout_secs

live_segments(stream, t) ==
    [stream EXCEPT !.segments =
        [q \in { x \in DOMAIN @ : ~segment_expired(@[x], t) } |-> @[q]]]

\* TcpReassembler::cleanup_expired
cleanup_expired(r, t) ==
    [r EXCEPT !.streams = [k \in (DOMAIN @) \ expired_streams(r, t) |->
                              live_segments(@[k], t)],
              !.stream_stats = [k \in (DOMAIN @) \ expired_streams(r, t) |-> @[k]]]

\* ShardedTcpReassembler::cleanup_stats and reset_stats
cleanup_stats(stats) == EmptyMap
reset_stats(stats) == EmptyMap

\* threads 1 and 2 handle packets, thread 3 runs cleanup_all; shutdown() is
\* called by thread 2
PacketThreads == {1, 2}
CleanupThread == Cardinality(PacketThreads) + 1
ShutdownThread == CleanupThread - 1

\* a variant of the lock that never makes a thread wait
can_write_unguarded(lk, i) == TRUE

\* RwLock::write returns once the lock of shard i is free
can_write(lk, i) == lk[i] = 0

\* the loop of cleanup_all stands before shard i
BeforeShard(i) == [at |-> "cleaning", shard |-> i, pkt |-> NoPacket]
\* cleanup_all has returned inside shutdown()
Cleaned == [at |-> "cleaned", shard |-> 0, pkt |-> NoPacket]

\* cleanup_all is called: its loop stands before shard 0
StartCleanup ==
    /\ pc[CleanupThread] = Idle
    /\ swept.n < MaxPasses
    /\ pc' = [pc EXCEPT ![CleanupThread] = BeforeShard(0)]
    /\ swept' = [swept EXCEPT !.n = @ + 1]
    /\ UNCHANGED << reassembler_vars, plan, pool_vars, defrag_vars, lock, life_vars,
                    bg_vars, pure_vars >>

\* one iteration of the loop of cleanup_all by thread th, lines 282-293:
\* shard.write(), cleanup_expired at the clock value read in this iteration,
\* and the guard dropped at the end of the iteration; after the last shard
\* the thread stands at done
CleanShard(th, done) ==
    /\ pc[th].at = "cleaning"
    /\ can_write(lock, pc[th].shard)
    /\ shards' = [shards EXCEPT ![pc[th].shard] = cleanup_expired(@, now)]
    /\ last' = [op |-> "cleanup_expired", pkt |-> NoPacket, pre |-> None,
                shard |-> pc[th].shard]
    /\ swept' = [swept EXCEPT !.pre = shards, !.t = now]
    /\ pc' = [pc EXCEPT ![th] = IF pc[th].shard + 1 < ShardCount
                                THEN BeforeShard(pc[th].shard + 1) ELSE done]
    /\ UNCHANGED << stream_stats, now, ret, npkts, routed, overflowed, solo, log, inflight,
                    plan, pool_vars, defrag_vars, lock, life_vars, bg_vars, pure_vars >>

\* the iteration of a cleanup_all pass that was called on its own
CleanupShard == CleanShard(CleanupThread, Idle)

\* a call of cleanup_stats or of reset_stats
ClearStats ==
    /\ stream_stats # EmptyMap
    /\ \E cleared \in {cleanup_stats(stream_stats), reset_stats(stream_stats)} :
            stream_stats' = cleared
    /\ last' = [op |-> "clear_stats", pkt |-> NoPacket, pre |-> None, shard |-> 0]
    /\ UNCHANGED << shards, now, ret, npkts, routed, overflowed, solo, log, inflight,
                    plan, pool_vars, other_vars >>

(***************************************************************************)
(* SpecCleanup: packets of two flows in different shards, the clock, and   *)
(* cleanup passes.  The first packet of a flow comes at sequence number    *)
(* MaxLen + 1, a later one at the stream's next_seq or one after it.       *)
(***************************************************************************)
CleanupKeys == {K1, K3}

CleanupSeqs(key) ==
    IF IsSome(StreamOf(key))
    THEN { Unwrap(StreamOf(key)).next_seq, wrapping_add(Unwrap(StreamOf(key)).next_seq, 1) }
    ELSE { MaxLen + 1 }

CleanupPacket ==
    /\ \E k \in CleanupKeys : \E q \in CleanupSeqs(k) :
            Call([key |-> k, seq |-> q, flags |-> PSH_ACK, payload |-> Fill(1, 1)], FALSE)
    /\ UNCHANGED << plan, pool_vars, other_vars >>

ClockTick ==
    /\ now < MaxPackets + timeout_secs + 1
    /\ now' = now + 1
    /\ UNCHANGED << shards, stream_stats, ret, npkts, last, routed, overflowed, solo, log, inflight,
                    plan, pool_vars, other_vars >>

NextCleanup ==
    \/ CleanupPacket
    \/ Return
    \/ ClockTick
    \/ StartCleanup
    \/ CleanupShard
    \/ ClearStats

SpecCleanup == Init /\ [][NextCleanup]_vars

\* how long the flow of key k in shard i had been idle when the pass last
\* read the clock
IdleAtSweep(i, k) == swept.t - swept.pre[i].streams[k].last_seen

\* C15: a cleanup pass removes from its shard every flow that has been idle
\* for more than the stream timeout, with its segments and its statistics
\* entry, and removes no flow that has been idle for the timeout or less.
C15_IdleFlowEviction ==
    last.op = "cleanup_expired" =>
        \A i \in {last.shard} : \A k \in DOMAIN swept.pre[i].streams :
            /\ IdleAtSweep(i, k) > timeout_secs =>
                    /\ k \notin DOMAIN shards[i].streams
                    /\ k \notin DOMAIN shards[i].stream_stats
            /\ IdleAtSweep(i, k) <= timeout_secs => k \in DOMAIN shards[i].streams

(***************************************************************************)
(* SpecLocks: threads call ShardedTcpReassembler::process_packet while     *)
(* another runs cleanup_all.  Each takes the write lock of the shard       *)
(* (parking_lot::RwLock::write, which waits until no other thread holds    *)
(* the lock), works on the shard, and drops the guard.  Threads 1 and 2    *)
(* handle packets, thread 3 is the cleanup task.                           *)
(***************************************************************************)
Inside(th) == pc[th].at = "locked"

LockPackets ==
    { [key |-> k, seq |-> q, flags |-> PSH_ACK, payload |-> Fill(1, 1)] :
        k \in {K1, K2, K3}, q \in {MaxLen + 1, MaxLen + 2} }

\* the number of process_packet calls of the two threads together
MaxLockCalls == 2

\* process_packet up to and including shard.write()
LockShard(th, pkt) ==
    /\ pc[th] = Idle
    /\ npkts + Cardinality({ o \in PacketThreads : Inside(o) }) < MaxLockCalls
    /\ can_write(lock, get_smart_shard_index(pkt.key, pkt))
    /\ lock' = [lock EXCEPT ![get_smart_shard_index(pkt.key, pkt)] = th]
    /\ pc' = [pc EXCEPT ![th] = [at |-> "locked",
                                 shard |-> get_smart_shard_index(pkt.key, pkt),
                                 pkt |-> pkt]]
    /\ UNCHANGED << reassembler_vars, plan, pool_vars, defrag_vars, swept, life_vars,
                    bg_vars, pure_vars >>

\* reassembler.process_packet under the guard, and the guard dropped at the
\* end of the block (lines 237-240)
HandleLocked(th) ==
    /\ Inside(th)
    /\ InShard(th, pc[th].pkt, FALSE)
    /\ lock' = [lock EXCEPT ![pc[th].shard] = 0]
    /\ pc' = [pc EXCEPT ![th].at = "unlocked"]
    /\ UNCHANGED << plan, pool_vars, defrag_vars, swept, life_vars, bg_vars, pure_vars >>

\* the rest of process_packet, with no shard lock held: update_stream_stats
\* and the return (lines 242-247)
ReturnUnlocked(th) ==
    /\ pc[th].at = "unlocked"
    /\ Returns(th)
    /\ pc' = [pc EXCEPT ![th] = Idle]
    /\ UNCHANGED << lock, plan, pool_vars, defrag_vars, swept, life_vars, bg_vars,
                    pure_vars >>

\* the shard.write() of the loop of cleanup_all
LockForCleanup ==
    /\ pc[CleanupThread].at = "cleaning"
    /\ can_write(lock, pc[CleanupThread].shard)
    /\ lock' = [lock EXCEPT ![pc[CleanupThread].shard] = CleanupThread]
    /\ pc' = [pc EXCEPT ![CleanupThread].at = "locked"]
    /\ UNCHANGED << reassembler_vars, plan, pool_vars, defrag_vars, swept, life_vars,
                    bg_vars, pure_vars >>

\* cleanup_expired under the guard, the guard dropped at the end of the
\* iteration, and on to the next shard
CleanLocked ==
    /\ Inside(CleanupThread)
    /\ shards' = [shards EXCEPT ![pc[CleanupThread].shard] = cleanup_expired(@, now)]
    /\ last' = [op |-> "cleanup_expired", pkt |-> NoPacket, pre |-> None,
                shard |-> pc[CleanupThread].shard]
    /\ lock' = [lock EXCEPT ![pc[CleanupThread].shard] = 0]
    /\ pc' = [pc EXCEPT ![CleanupThread] =
                IF pc[CleanupThread].shard + 1 < ShardCount
                THEN [at |-> "cleaning", shard |-> pc[CleanupThread].shard + 1,
                      pkt |-> NoPacket]
                ELSE Idle]
    /\ UNCHANGED << stream_stats, now, ret, npkts, routed, overflowed, solo, log, inflight,
                    plan, pool_vars, defrag_vars, swept, life_vars, bg_vars, pure_vars >>

NextLocks ==
    \/ \E th \in PacketThreads : \E pkt \in LockPackets : LockShard(th, pkt)
    \/ \E th \in PacketThreads : HandleLocked(th)
    \/ \E th \in PacketThreads : ReturnUnlocked(th)
    \/ StartCleanup
    \/ LockForCleanup
    \/ CleanLocked

SpecLocks == Init /\ [][NextLocks]_vars

\* at most one thread is at work on a shard, and it holds the shard's lock
OneInside ==
    /\ \A th \in Threads : Inside(th) => lock[pc[th].shard] = th
    /\ \A t1 \in Threads : \A t2 \in Threads :
            (Inside(t1) /\ Inside(t2) /\ pc[t1].shard = pc[t2].shard) => t1 = t2

\* a step changes a shard only as the work of the thread that holds its lock
ChangedUnderLock ==
    \A i \in Shards :
        shards'[i] # shards[i] =>
            \E th \in Threads : /\ Inside(th) /\ pc[th].shard = i /\ lock[i] = th
                                /\ ~Inside(th)'

\* C16: the handling of a packet and a cleanup pass on the same shard never
\* overlap, no two packets are handled on one shard at the same time, and a
\* shard changes only under its exclusive lock, held for the whole
\* operation on that shard.
C16_ShardMutualExclusion == []OneInside /\ [][ChangedUnderLock]_vars

\* a packet is being handled on shard 0 while the cleanup pass stands
\* before shard 0 and the other thread, which has handled a packet on
\* shard 0 and dropped its guard, has not yet returned
C16_Witness ==
    /\ Inside(1) /\ pc[1].shard = 0
    /\ pc[CleanupThread].at = "cleaning" /\ pc[CleanupThread].shard = 0
    /\ pc[2].at = "unlocked" /\ pc[2].shard = 0
    /\ npkts > 0

(***************************************************************************)
(* SpecLife: the WorkerPool from new to shutdown or drop.  submit takes    *)
(* &self, so several submit calls can wait in send().await at once;        *)
(* shutdown takes &mut self and drop owns the pool, so they start only     *)
(* when no submit call is under way, and no call starts while shutdown     *)
(* runs or after drop.  Waiting senders are served in any order.           *)
(***************************************************************************)
\* the number of submit calls that reach send().await: with the pool as
\* above, NumWorkers * MailboxCap fill every mailbox and one more waits
MaxSubmits == 3

\* shutdown, line 214: the shutdown flag is set
shutdown_returns_early(flag) == flag

LifePacket ==
    [key |-> K1, seq |-> wrapping_add(1, Len(submitted)), flags |-> PSH_ACK,
     payload |-> Fill(1, 1)]

\* WorkerPool::shutdown is called: it returns at once when the flag is set,
\* else sets the flag and starts to signal the workers
ShutdownCall ==
    /\ PoolUsable
    /\ sending = { }
    /\ IF shutdown_returns_early(shutdown_flag)
       THEN /\ pool_ret.again < MaxRefused
            /\ pool_ret' = [Returned("shutdown", TRUE, "") EXCEPT !.again = @ + 1]
            /\ UNCHANGED << shutdown_flag, closing >>
       ELSE /\ shutdown_flag' = TRUE
            /\ closing' = Some(0)
            /\ UNCHANGED pool_ret
    /\ UNCHANGED << reassembler_vars, plan, pool_vars, defrag_vars, swept, lock_vars,
                    bg_vars, pure_vars, alive, sending, dropping >>

\* the loop of shutdown over the workers: send(Task::Shutdown).await, which
\* waits for room and fails when the receiver is gone
ShutdownSend ==
    /\ IsSome(closing)
    /\ Unwrap(closing) < NumWorkers
    /\ ~alive[Unwrap(closing)] \/ HasRoom(Unwrap(closing))
    /\ mailbox' = IF alive[Unwrap(closing)]
                  THEN [mailbox EXCEPT ![Unwrap(closing)] = Append(@, ShutdownTask)]
                  ELSE mailbox
    /\ closing' = Some(Unwrap(closing) + 1)
    /\ UNCHANGED << reassembler_vars, plan, next_worker, submitted, defrag_vars, swept,
                    lock_vars, bg_vars, pure_vars, shutdown_flag, alive, sending,
                    dropping, pool_ret >>

\* shutdown has joined every worker thread and returns
ShutdownJoin ==
    /\ closing = Some(NumWorkers)
    /\ \A w \in Workers : ~alive[w]
    /\ closing' = None
    /\ pool_ret' = Returned("shutdown", TRUE, "")
    /\ UNCHANGED << reassembler_vars, plan, pool_vars, defrag_vars, swept, lock_vars,
                    bg_vars, pure_vars, shutdown_flag, alive, sending, dropping >>

\* drop, line 243: the flag is clear
drop_signals(flag) == ~flag

\* the pool is dropped.  Drop for WorkerPool, lines 241-244: with the flag
\* set drop() returns at once and the fields of the pool are dropped; with
\* the flag clear it sets the flag and starts to signal the workers
Drop ==
    /\ PoolUsable
    /\ sending = { }
    /\ IF drop_signals(shutdown_flag)
       THEN /\ shutdown_flag' = TRUE
            /\ dropping' = Some(0)
            /\ UNCHANGED pool_ret
       ELSE /\ pool_ret' = Returned("drop", TRUE, "")
            /\ UNCHANGED << shutdown_flag, dropping >>
    /\ UNCHANGED << reassembler_vars, plan, pool_vars, defrag_vars, swept, lock_vars,
                    bg_vars, pure_vars, alive, sending, closing >>

\* the loop of drop over the workers, lines 250-252:
\* try_send(Task::Shutdown), which does not wait: the message is queued
\* when the worker's channel has room and its receiver lives, and is lost
\* otherwise
DropTrySend ==
    /\ IsSome(dropping)
    /\ Unwrap(dropping) < NumWorkers
    /\ mailbox' = IF alive[Unwrap(dropping)] /\ HasRoom(Unwrap(dropping))
                  THEN [mailbox EXCEPT ![Unwrap(dropping)] = Append(@, ShutdownTask)]
                  ELSE mailbox
    /\ dropping' = Some(Unwrap(dropping) + 1)
    /\ UNCHANGED << reassembler_vars, plan, next_worker, submitted, defrag_vars, swept,
                    lock_vars, bg_vars, pure_vars, shutdown_flag, alive, sending,
                    closing, pool_ret >>

\* the sleep of drop, line 255, is over and drop returns; the fields of the
\* pool are dropped, and with them every Sender.  The workers run while
\* drop sleeps.
DropReturns ==
    /\ dropping = Some(NumWorkers)
    /\ dropping' = None
    /\ pool_ret' = Returned("drop", TRUE, "")
    /\ UNCHANGED << reassembler_vars, plan, pool_vars, defrag_vars, swept, lock_vars,
                    bg_vars, pure_vars, shutdown_flag, alive, sending, closing >>

NextLife ==
    \/ Submit(LifePacket, MaxSubmits)
    \/ \E s \in sending : SendCompletes(s)
    \/ ShutdownCall
    \/ ShutdownSend
    \/ ShutdownJoin
    \/ Drop
    \/ DropTrySend
    \/ DropReturns
    \/ \E w \in Workers : WorkerRecv(w)
    \/ \E w \in Workers : WorkerHandles(w)
    \/ \E w \in Workers : WorkerReturns(w)

SpecLife == Init /\ [][NextLife]_vars

\* a step in which a call made with the flag set and no shutdown under way
\* returns
LateReturn(op) ==
    /\ shutdown_flag
    /\ closing = None
    /\ dropping = None
    /\ pool_ret' # pool_ret
    /\ pool_ret'.op = op

PoolUntouched == mailbox' = mailbox /\ next_worker' = next_worker /\ sending' = sending

\* C17: once shutdown or drop has set the shutdown flag, every later submit
\* returns the closed-pool error and puts nothing in any mailbox, and a
\* second shutdown returns Ok and sends no Shutdown message; neither
\* changes the pool.
C17_SubmitAfterShutdown ==
    [][ /\ LateReturn("submit") =>
            (~pool_ret'.ok /\ pool_ret'.err = "WorkerPool closed" /\ PoolUntouched)
        /\ LateReturn("shutdown") => (pool_ret'.ok /\ PoolUntouched) ]_vars

\* after a shutdown that signalled and joined every worker, a submit was
\* refused and a second shutdown returned
C17_Witness ==
    /\ shutdown_flag
    /\ closing = None
    /\ \A w \in Workers : ~alive[w]
    /\ Len(submitted) > 0
    /\ pool_ret.refused > 0
    /\ pool_ret.again > 0
    /\ pool_ret.op = "submit"

\* a submit call stands in send().await and the worker's channel has no room
Waits(s) == alive[s.worker] /\ ~HasRoom(s.worker)

\* C18: a submit that finds the mailbox of the selected worker full fails
\* with an error and returns: no submit call ever waits for a worker to
\* free a slot.
C18_Backpressure == \A s \in sending : ~Waits(s)

(***************************************************************************)
(* SpecBackground: the two loops of start_background_tasks, the holder of  *)
(* the flag it returns, and ShardedTcpReassembler::shutdown, while packets *)
(* of one flow arrive in order and the clock moves.                        *)
(***************************************************************************)
\* the number of packets that arrive while the tasks run
MaxTaskPackets == 1

BackgroundPacket ==
    /\ CallWithin([key |-> K1,
                   seq |-> IF IsSome(StreamOf(K1)) THEN Unwrap(StreamOf(K1)).next_seq
                           ELSE MaxLen + 1,
                   flags |-> PSH_ACK, payload |-> Fill(1, 1)], FALSE, MaxTaskPackets)
    /\ UNCHANGED << plan, pool_vars, other_vars >>

\* start_background_tasks: the flag is made and set, both loops are spawned
StartBackgroundTasks ==
    /\ \A b \in BackgroundTasks : tasks[b].at = "none"
    /\ running' = TRUE
    /\ tasks' = [b \in BackgroundTasks |-> [at |-> "looping", late |-> 0]]
    /\ UNCHANGED << reassembler_vars, plan, pool_vars, defrag_vars, swept, lock_vars,
                    life_vars, shut, pure_vars >>

\* one tick of the loop of task b: it ends when the flag is clear, else it
\* runs its pass: monitor_load_balance, which only reads, or cleanup_all,
\* whose loop then stands before shard 0
TaskTick(b) ==
    /\ tasks[b].at = "looping"
    /\ b = "cleanup" => pc[CleanupThread] = Idle
    /\ IF ~running
       THEN /\ tasks' = [tasks EXCEPT ![b].at = "ended"]
            /\ UNCHANGED << pc, swept >>
       ELSE /\ shut => tasks[b].late < MaxPasses
            /\ tasks' = [tasks EXCEPT ![b].late = IF shut THEN @ + 1 ELSE @]
            /\ IF b = "cleanup"
               THEN /\ swept.n < MaxPasses
                    /\ pc' = [pc EXCEPT ![CleanupThread] = BeforeShard(0)]
                    /\ swept' = [swept EXCEPT !.n = @ + 1]
               ELSE UNCHANGED << pc, swept >>
    /\ UNCHANGED << reassembler_vars, plan, pool_vars, defrag_vars, lock, life_vars,
                    running, shut, pure_vars >>

\* the holder of the flag stores false into it
StopFlagCleared ==
    /\ running
    /\ running' = FALSE
    /\ UNCHANGED << reassembler_vars, plan, pool_vars, defrag_vars, swept, lock_vars,
                    life_vars, tasks, shut, pure_vars >>

\* ShardedTcpReassembler::shutdown is called: it enters cleanup_all
ReassemblerShutdown ==
    /\ ~shut
    /\ pc[ShutdownThread] = Idle
    /\ shut' = TRUE
    /\ pc' = [pc EXCEPT ![ShutdownThread] = BeforeShard(0)]
    /\ swept' = [swept EXCEPT !.n = @ + 1]
    /\ UNCHANGED << reassembler_vars, plan, pool_vars, defrag_vars, lock, life_vars,
                    running, tasks, pure_vars >>

\* the iteration of the cleanup_all pass of shutdown()
ShutdownCleans == CleanShard(ShutdownThread, Cleaned)

\* the rest of shutdown(): cleanup_stats, and the return
ShutdownReturns ==
    /\ pc[ShutdownThread] = Cleaned
    /\ stream_stats' = cleanup_stats(stream_stats)
    /\ last' = [op |-> "shutdown", pkt |-> NoPacket, pre |-> None, shard |-> 0]
    /\ pc' = [pc EXCEPT ![ShutdownThread] = Idle]
    /\ UNCHANGED << shards, now, ret, npkts, routed, overflowed, solo, log, inflight,
                    plan, pool_vars, defrag_vars, swept, lock, life_vars, bg_vars,
                    pure_vars >>

NextBackground ==
    \/ BackgroundPacket
    \/ Return
    \/ ClockTick
    \/ StartBackgroundTasks
    \/ \E b \in BackgroundTasks : TaskTick(b)
    \/ CleanupShard
    \/ StopFlagCleared
    \/ ReassemblerShutdown
    \/ ShutdownCleans
    \/ ShutdownReturns
    \/ ClearStats

SpecBackground == Init /\ [][NextBackground]_vars

\* C19: once shutdown() has returned with the background tasks started, the
\* stop flag is set (running is false) and neither loop has started a
\* cleanup or monitor pass since shutdown() was called.
C19_BackgroundCancellation ==
    (shut /\ pc[ShutdownThread] = Idle /\ \A b \in BackgroundTasks : tasks[b].at # "none") =>
        /\ ~running
        /\ \A b \in BackgroundTasks : tasks[b].late = 0

(***************************************************************************)
(* SpecCompare: the free functions seq_compare and is_seq_after of         *)
(* stream_tcp.rs, whose body is that of TcpReassembler::seq_compare, on    *)
(* every pair of sequence numbers.  diff.abs() overflows for i32::MIN: a   *)
(* build with overflow checks panics there, a release build goes on with   *)
(* i32::MIN.                                                               *)
(***************************************************************************)
is_seq_after(a, b) == seq_compare(a, b) > 0

\* what a call of seq_compare and of is_seq_after on a and b can do
compare_outcomes(a, b) ==
    { [panicked |-> FALSE, compare |-> seq_compare(a, b), after |-> is_seq_after(a, b)] }
    \cup IF a # b /\ AsSigned(wrapping_sub(a, b)) = IntMin
         THEN { [panicked |-> TRUE, compare |-> 0, after |-> FALSE] }
         ELSE { }

InitSpecCompare ==
    /\ InitReassembler
    /\ InitPool
    /\ plan = << >>
    /\ InitDefrag
    /\ fplan = << >>
    /\ InitOther
    /\ sa \in SeqNums
    /\ sb \in SeqNums
    /\ cmp = None

Compare ==
    /\ cmp = None
    /\ \E o \in compare_outcomes(sa, sb) : cmp' = Some(o)
    /\ UNCHANGED << reassembler_vars, plan, pool_vars, defrag_vars, swept, lock_vars,
                    life_vars, bg_vars, sa, sb, fsm, fg, paths, rw >>

SpecCompare == InitSpecCompare /\ [][Compare]_vars

Sign(x) == IF x > 0 THEN 1 ELSE IF x < 0 THEN 0 - 1 ELSE 0
SignedDifference(a, b) == AsSigned(wrapping_sub(a, b))

\* C20: for all sequence numbers a and b, seq_compare(a, b) returns a value
\* with the sign of the signed difference a - b taken modulo the size of
\* the sequence space, and is_seq_after(a, b) holds exactly when that
\* difference is positive.
C20_WrapAwareCompare ==
    IsSome(cmp) =>
        /\ ~Unwrap(cmp).panicked
        /\ Sign(Unwrap(cmp).compare) = Sign(SignedDifference(sa, sb))
        /\ Unwrap(cmp).after = (SignedDifference(sa, sb) > 0)

(***************************************************************************)
(* Shutdown and the flow tables, under SpecBackground.                     *)
(***************************************************************************)
\* ShardedTcpReassembler::get_shard_stats: the stream count of every shard
get_shard_stats(sh) == [i \in DOMAIN sh |-> Cardinality(DOMAIN sh[i].streams)]

\* C21: when shutdown() returns, get_shard_stats reports 0 streams for every
\* shard and the stream statistics map is empty.
C21_ShutdownDiscardsStreams ==
    [][(pc[ShutdownThread] = Cleaned /\ pc'[ShutdownThread] = Idle) =>
          /\ \A i \in Shards : get_shard_stats(shards')[i] = 0
          /\ stream_stats' = EmptyMap]_vars

(***************************************************************************)
(* SpecFlags: handle_tcp_flags on a stream in every connection state, for  *)
(* every combination of the five flags.                                    *)
(***************************************************************************)
TcpStates == {"Closed", "SynSent", "SynReceived", "Established", "FinWait1", "FinWait2",
              "CloseWait", "Closing", "LastAck", "TimeWait"}

FlagSets == 0 .. (2 * TCP_ACK - 1)

InitSpecFlags ==
    /\ InitReassembler
    /\ InitPool
    /\ plan = << >>
    /\ InitDefrag
    /\ fplan = << >>
    /\ InitShardLocks
    /\ InitLife
    /\ InitBackground
    /\ InitCompare
    /\ InitGroup
    /\ InitPaths
    /\ InitCallers
    /\ \E st \in TcpStates, fl \in FlagSets :
          fsm = [pre |-> Some([TcpStream_new(0) EXCEPT !.state = st]), flags |-> fl,
                 post |-> None]

HandleFlags ==
    /\ fsm.post = None
    /\ fsm' = [fsm EXCEPT !.post = Some(handle_tcp_flags(Unwrap(fsm.pre), 1, fsm.flags))]
    /\ UNCHANGED << reassembler_vars, plan, pool_vars, defrag_vars, swept, lock_vars,
                    life_vars, bg_vars, cmp_vars, fg, paths,
                    rw >>

SpecFlags == InitSpecFlags /\ [][HandleFlags]_vars

\* C22: for every state of an existing stream and every combination of the
\* other flags, the stream's state is Closed after handle_tcp_flags has
\* processed a packet with the RST flag.
C22_RstCloses ==
    (IsSome(fsm.post) /\ HasFlag(fsm.flags, TCP_RST)) => Unwrap(fsm.post).state = "Closed"

C22_Witness ==
    /\ IsSome(fsm.post)
    /\ fsm.flags = TCP_RST + TCP_ACK
    /\ Unwrap(fsm.pre).state = "Established"
    /\ Unwrap(fsm.post).state = "Closed"

(***************************************************************************)
(* The handshake, under Spec: a SYN of a new flow or of a closed stream.   *)
(***************************************************************************)
\* the last call handled a SYN without RST, for a flow that was new or
\* whose stream was in state Closed
SynOnClosed ==
    /\ last.op = "process_packet"
    /\ HasFlag(last.pkt.flags, TCP_SYN)
    /\ ~HasFlag(last.pkt.flags, TCP_RST)
    /\ (IsSome(last.pre) => Unwrap(last.pre).state = "Closed")

\* C23: after process_packet has handled a SYN (without RST) for a flow that
\* is new or whose stream is in state Closed, the stream's state is
\* SynReceived.
C23_SynOpensHandshake ==
    SynOnClosed =>
        /\ IsSome(StreamOf(last.pkt.key))
        /\ Unwrap(StreamOf(last.pkt.key)).state = "SynReceived"

(***************************************************************************)
(* SpecStates: the control packets of one connection, the clock, and the   *)
(* periodic cleanup passes.  The packets carry no payload and come at the  *)
(* stream's next_seq: the seven packets of Teardown take a stream from its *)
(* creation to TimeWait (through FinWait2), and an RST can come in place   *)
(* of any of them.  Every packet reads a later clock value; besides, the   *)
(* clock advances while the stream is in FinWait2 or a later state, and    *)
(* the cleanup task runs a pass at any time, so that a flow left idle      *)
(* there is in the end removed by cleanup_expired.  A clock tick stands    *)
(* for 15 s, as the stream timeout of 30 s is two ticks: the idle limits   *)
(* of check_state_timeout are twice and four times the stream timeout.     *)
(***************************************************************************)
\* Duration::from_secs(60) of the FinWait2 arm, in clock ticks
FIN_WAIT2_SECS == 4
\* Duration::from_secs(120) of the TimeWait arm, in clock ticks
TIME_WAIT_SECS == 8

Teardown == << TCP_SYN, TCP_SYN, TCP_ACK, TCP_ACK, TCP_ACK, TCP_FIN, TCP_ACK >>

StateFlags == IF npkts < Len(Teardown) THEN { Teardown[npkts + 1], TCP_RST } ELSE { }

StateSeq == IF IsSome(StreamOf(K1)) THEN Unwrap(StreamOf(K1)).next_seq ELSE 1

StatePacket ==
    /\ \E fl \in StateFlags :
            CallWithin([key |-> K1, seq |-> StateSeq, flags |-> fl, payload |-> << >>],
                       FALSE, Len(Teardown))
    /\ UNCHANGED << plan, pool_vars, other_vars >>

\* the longest idle time that matters to cleanup_expired and to
\* check_state_timeout
IdleLimit == Max({timeout_secs, FIN_WAIT2_SECS, TIME_WAIT_SECS})

\* the states from FinWait2 to the end of the teardown
LateStates == {"FinWait2", "Closing", "TimeWait"}

\* the clock advances while the flow is resident in one of these states,
\* until it has been idle for longer than every limit
StateTick ==
    /\ IsSome(StreamOf(K1))
    /\ Unwrap(StreamOf(K1)).state \in LateStates
    /\ now - Unwrap(StreamOf(K1)).last_seen <= IdleLimit
    /\ now' = now + 1
    /\ UNCHANGED << shards, stream_stats, ret, npkts, last, routed, overflowed, solo, log, inflight,
                    plan, pool_vars, other_vars >>

\* the periodic cleanup task calls cleanup_all: its loop stands before
\* shard 0
StateCleanup ==
    /\ pc[CleanupThread] = Idle
    /\ pc' = [pc EXCEPT ![CleanupThread] = BeforeShard(0)]
    /\ UNCHANGED << reassembler_vars, plan, pool_vars, defrag_vars, swept, lock,
                    life_vars, bg_vars, pure_vars >>

NextStates == StatePacket \/ Return \/ StateTick \/ StateCleanup \/ CleanupShard

SpecStates == Init /\ [][NextStates]_vars

\* a call under way returns, the clock advances and the periodic cleanup
\* task takes its turns
FairStates ==
    /\ SpecStates
    /\ WF_vars(Return) /\ WF_vars(StateTick) /\ WF_vars(StateCleanup) /\ WF_vars(CleanupShard)

\* TcpReassembler::check_state_timeout
check_state_timeout(stream, t) ==
    IF stream.state = "FinWait2" /\ t - stream.last_seen > FIN_WAIT2_SECS
    THEN count_packet([stream EXCEPT !.state = "Closed"])
    ELSE IF stream.state = "TimeWait" /\ t - stream.last_seen > TIME_WAIT_SECS
    THEN count_packet([stream EXCEPT !.state = "Closed"])
    ELSE stream

\* the stream of K1 is in a state with an idle limit and has been idle for
\* longer than that limit
IdleTooLong ==
    /\ IsSome(StreamOf(K1))
    /\ check_state_timeout(Unwrap(StreamOf(K1)), now) # Unwrap(StreamOf(K1))

\* C24: a stream in FinWait2 idle for more than 60 s, or in TimeWait idle
\* for more than 2 minutes, eventually has its state set to Closed.
C24_StateTimeouts ==
    IdleTooLong ~> (IsSome(StreamOf(K1)) /\ Unwrap(StreamOf(K1)).state = "Closed")

\* the last call handled an RST for a stream that was resident
RstOnResident ==
    /\ last.op = "process_packet"
    /\ IsSome(last.pre)
    /\ HasFlag(last.pkt.flags, TCP_RST)

\* C25: a stream that has reached the Closed terminal state through RST is
\* destroyed: once process_packet has handled the RST, the stream is no
\* longer resident in the flow table.
C25_StreamLifetime == RstOnResident => ~IsSome(StreamOf(last.pkt.key))

(***************************************************************************)
(* The stream invariant, under SpecFlow.                                   *)
(***************************************************************************)
\* C26: after every process_packet call the flow's base_seq is not after
\* its next_seq under wrap-aware comparison of sequence numbers.
C26_BaseNotAfterNext ==
    (last.op = "process_packet" /\ IsSome(StreamOf(last.pkt.key))) =>
        SignedDifference(Unwrap(StreamOf(last.pkt.key)).base_seq,
                         Unwrap(StreamOf(last.pkt.key)).next_seq) <= 0

(***************************************************************************)
(* The per-flow segment cap, under SpecFlow.  max_segments is the value    *)
(* ShardConfig.max_segments hands to TcpReassembler::new; the only code    *)
(* that reads it, handle_out_of_order_segment, has no caller.              *)
(***************************************************************************)
max_segments == 1

buffered_segments(stream) == Cardinality(DOMAIN stream.segments)

\* C27: the number of segments buffered for a flow never exceeds
\* max_segments.
C27_SegmentCap ==
    IsSome(StreamOf(K1)) => buffered_segments(Unwrap(StreamOf(K1))) <= max_segments

(***************************************************************************)
(* The gap policy, under SpecFlow.  max_gap is the field TcpReassembler::new *)
(* sets (16384 in the source, scaled here to the sequence space).          *)
(***************************************************************************)
max_gap == 1

\* the last call handled a data-bearing packet of a resident flow whose seq
\* lies more than max_gap after the flow's next_seq
BeyondMaxGap ==
    /\ last.op = "process_packet"
    /\ IsSome(last.pre)
    /\ last.pkt.payload # << >>
    /\ SignedDifference(last.pkt.seq, Unwrap(last.pre).next_seq) > max_gap

\* C28: such a packet records an error on the stream, is not inserted into
\* the flow's buffer, and process_packet returns None for it.
C28_GapPolicy ==
    BeyondMaxGap =>
        /\ Unwrap(StreamOf(last.pkt.key)).stats.reassambled_errors
              > Unwrap(last.pre).stats.reassambled_errors
        /\ Unwrap(StreamOf(last.pkt.key)).segments = Unwrap(last.pre).segments
        /\ ret = None

(***************************************************************************)
(* The per-shard flow cap, under Spec.  ShardedTcpReassembler::new hands   *)
(* config.max_streams_per_shard to TcpReassembler::new as its second       *)
(* argument, max_payload_size; the cap process_packet enforces is the      *)
(* field max_streams, which new sets to a fixed value.  The configured     *)
(* value (1000 by default, below the fixed 1024) is scaled likewise.       *)
(***************************************************************************)
max_streams_per_shard == 1

\* ShardedTcpReassembler::get_health_status
get_health_status(sh) ==
    \A i \in DOMAIN sh : ~(get_shard_stats(sh)[i] > max_streams_per_shard)

\* C29: no shard holds more than the configured max_streams_per_shard
\* flows, so get_health_status returns true in every reachable state.
C29_ShardFlowCap == get_health_status(shards)

(***************************************************************************)
(* SpecFirst: the packets of SpecFlow, handled by reassemblers whose       *)
(* policy has been set to First.                                           *)
(***************************************************************************)
InitFirst ==
    /\ InitReassemblerAs(set_policy(TcpReassembler_new, "First"))
    /\ InitPool
    /\ plan = << >>
    /\ InitDefrag
    /\ fplan = << >>
    /\ InitOther
    /\ InitCompare

SpecFirst == InitFirst /\ [][NextFlow]_vars

\* the range [seq, seq+len) of the last packet intersects a segment that
\* was buffered for its flow when the packet arrived
OverlapsBuffered ==
    /\ last.op = "process_packet"
    /\ IsSome(last.pre)
    /\ last.pkt.payload # << >>
    /\ \E e \in DOMAIN Unwrap(last.pre).segments :
          ranges_overlap(last.pkt.seq, last.pkt.seq + Len(last.pkt.payload),
                         e, e + Len(Unwrap(last.pre).segments[e].data))

\* C30: under the policy First, a packet whose range intersects a buffered
\* segment leaves the buffer as it was (the buffered segments keep their
\* bytes, the packet is not stored) and process_packet returns no data.
C30_PolicyFirst ==
    OverlapsBuffered =>
        /\ Unwrap(StreamOf(last.pkt.key)).segments = Unwrap(last.pre).segments
        /\ ret = None

(***************************************************************************)
(* SpecGroup: one fragment group of any policy, and add_fragment calls     *)
(* with fragments of 8 or 16 bytes at the offsets 0 .. MaxOffset, with     *)
(* either value of more_fragments and one of two fillings.                 *)
(***************************************************************************)
MaxOffset == 2

FragmentPolicies == {"First", "Last", "Longest"}

GroupFragments ==
    { Fragment_new(o, Fill(n, b), mf, 0) :
        o \in 0 .. MaxOffset, n \in {8, 16}, b \in Bytes, mf \in BOOLEAN }

InitSpecGroup ==
    /\ InitReassembler
    /\ InitPool
    /\ plan = << >>
    /\ InitDefrag
    /\ fplan = << >>
    /\ InitShardLocks
    /\ InitLife
    /\ InitBackground
    /\ InitCompare
    /\ InitFsm
    /\ InitPaths
    /\ InitCallers
    /\ \E policy \in FragmentPolicies : InitGroupOf(policy)

AddFragment ==
    /\ \E fragment \in GroupFragments :
          fg' = [policy |-> fg.policy,
                 group |-> add_fragment(fg.group, fragment, fg.policy).group,
                 pre |-> fg.group,
                 fragment |-> Some(fragment),
                 added |-> add_fragment(fg.group, fragment, fg.policy).added]
    /\ UNCHANGED << reassembler_vars, plan, pool_vars, defrag_vars, swept, lock_vars,
                    life_vars, bg_vars, cmp_vars, fsm, paths,
                    rw >>

SpecGroup == InitSpecGroup /\ [][AddFragment]_vars

\* the byte range [off*8, off*8+len) of a fragment
byte_range(fragment) ==
    (fragment.offset * 8) .. (fragment.offset * 8 + fragment.length - 1)

\* the fragments stored before the last call whose byte range intersects
\* that of the call's fragment
Intersected ==
    { o \in DOMAIN fg.pre.fragments :
        byte_range(fg.pre.fragments[o]) \cap byte_range(Unwrap(fg.fragment)) # {} }

\* C31: when the fragment of an add_fragment call overlaps stored fragments,
\* under Last every stored fragment that intersects it has been removed and
\* the new fragment is stored; under First the stored fragments are
\* unchanged.
C31_FragmentOverlapPolicy ==
    (IsSome(fg.fragment) /\ Intersected # {}) =>
        /\ fg.policy = "Last" =>
              /\ \A o \in Intersected :
                    o \in DOMAIN fg.group.fragments => o = Unwrap(fg.fragment).offset
              /\ Unwrap(fg.fragment).offset \in DOMAIN fg.group.fragments
              /\ fg.group.fragments[Unwrap(fg.fragment).offset] = Unwrap(fg.fragment)
        /\ fg.policy = "First" => fg.group.fragments = fg.pre.fragments

\* the offset, in 8-byte units, that follows a fragment
next_offset(fragment) == fragment.offset + ((fragment.length + 7) \div 8)

\* the stored fragments start at offset 0 and each ends where the next
\* one starts
Contiguous0(fragments) ==
    /\ Min(DOMAIN fragments) = 0
    /\ \A o \in DOMAIN fragments :
          o # Max(DOMAIN fragments) =>
              next_offset(fragments[o]) = Min({ q \in DOMAIN fragments : q > o })

\* exactly one stored fragment has more_fragments == false, and it is the
\* one with the highest offset
OneLastFragment(fragments) ==
    { o \in DOMAIN fragments : ~fragments[o].more_fragments } = { Max(DOMAIN fragments) }

\* the group the last call of process_packet found complete: the group of
\* the packet's key after the expiry pass, with the packet's fragment added
CompletedGroup ==
    add_fragment(IF group_key(dlast.pkt) \in DOMAIN TableAfterExpiry
                 THEN TableAfterExpiry[group_key(dlast.pkt)]
                 ELSE FragmentGroup_new(dlast.t),
                 Fragment_new(dlast.pkt.fragment_offset, dlast.pkt.payload,
                              dlast.pkt.more_fragments, dlast.t),
                 defrag.policy).group

\* C32: a group that process_packet reports complete and reassembles starts
\* at offset 0, is contiguous, and has exactly one fragment with
\* more_fragments == false, the one with the highest offset.
C32_CompletenessCheck ==
    Completed =>
        /\ Contiguous0(CompletedGroup.fragments)
        /\ OneLastFragment(CompletedGroup.fragments)

(***************************************************************************)
(* The aging rule, at the pass every valid call of process_packet runs     *)
(* before it looks up the packet's group.                                  *)
(***************************************************************************)
\* the groups the pass of the last call had to drop by the rule given as
\* parameter
Aged(rule(_, _)) == { k \in DOMAIN dlast.pre.fragments : rule(dlast.pre.fragments[k], dlast.t) }

\* the group has not been updated for longer than the timeout, or one of
\* its fragments is older than the timeout
idle_or_old_fragment(group, t) ==
    \/ t - group.last_update > FRAGMENT_TIMEOUT
    \/ \E o \in DOMAIN group.fragments : t - group.fragments[o].timestamp > FRAGMENT_TIMEOUT

\* the last call ran an aging pass that dropped exactly the groups of the
\* set gone and counted them; a packet of a dropped group found a fresh group
AgingPass(gone) ==
    (DefragCalled /\ validate_fragment_packet(dlast.pkt)) =>
        /\ \A k \in gone :
              k \in DOMAIN defrag.fragments =>
                  /\ k = group_key(dlast.pkt)
                  /\ \A o \in DOMAIN defrag.fragments[k].fragments :
                        defrag.fragments[k].fragments[o].timestamp = dlast.t
        /\ \A k \in (DOMAIN dlast.pre.fragments) \ gone :
              k # group_key(dlast.pkt) => k \in DOMAIN defrag.fragments
        /\ defrag.stats.expired_groups = dlast.pre.stats.expired_groups + Cardinality(gone)
        /\ (group_key(dlast.pkt) \in gone /\ Completed) =>
              Unwrap(dret.val).payload = dlast.pkt.payload

\* C33: at every aging pass a group is dropped if now - last_update exceeds
\* FRAGMENT_TIMEOUT or if any of its fragments is older than the timeout,
\* expired_groups grows by one per dropped group, and a fragment that
\* arrives after its group has expired starts a fresh group.
C33_FragmentAging == AgingPass(Aged(idle_or_old_fragment))


(***************************************************************************)
(* SpecAging: the steps that reach the defragmenter of a PacketProcessor:  *)
(* process_packet calls, the clock, and PacketProcessor::cleanup, which a  *)
(* caller may invoke and which no task of the processor invokes.           *)
(* FairAging lets the clock move on; packets and cleanup calls are the     *)
(* caller's choice and may stop.                                           *)
(***************************************************************************)
\* IpDefragmenter::clear
IpDefragmenter_clear(d) == [d EXCEPT !.fragments = EmptyMap, !.stats = DefragStats_new]

\* PacketProcessor::cleanup
ProcessorCleanup ==
    /\ defrag # IpDefragmenter_clear(defrag)
    /\ defrag' = IpDefragmenter_clear(defrag)
    /\ dlast' = [dlast EXCEPT !.op = "cleanup", !.pre = defrag, !.t = dnow,
                              !.lowered = FALSE]
    /\ UNCHANGED << not_defrag_vars, dnow, dret, dlog, fplan >>

NextAging == DefragPacket \/ DefragTick \/ ProcessorCleanup

SpecAging == Init /\ [][NextAging]_vars

FairAging == SpecAging /\ WF_vars(DefragTick)

AgingKeys == { group_key(pkt) : pkt \in DefragPackets }

IdleGroup(k) == k \in DOMAIN defrag.fragments /\ is_expired(defrag.fragments[k], dnow)

\* C34: a fragment group that has been idle for more than FRAGMENT_TIMEOUT
\* is eventually removed from the fragment table, whether or not another
\* packet reaches the defragmenter.
C34_FragmentAgingLiveness ==
    \A k \in AgingKeys : IdleGroup(k) ~> (k \notin DOMAIN defrag.fragments)


(***************************************************************************)
(* SpecStep: one flow as in SpecFlow, whose packets are data segments,     *)
(* SYNs and pure ACKs (no payload).                                        *)
(***************************************************************************)
AckPacket == [flags |-> TCP_ACK, payload |-> << >>]

StepPacket ==
    /\ \E q \in FlowSeqs, c \in DataKinds \cup {SynPacket, AckPacket} :
            Call([key |-> K1, seq |-> q, flags |-> c.flags, payload |-> c.payload], TRUE)
    /\ UNCHANGED << plan, pool_vars, other_vars >>

NextStep == StepPacket \/ Return

SpecStep == Init /\ [][NextStep]_vars

\* the number of bytes the last call returned
returned_bytes == IF IsSome(ret) THEN Len(Unwrap(ret)) ELSE 0

\* the last call was a packet without SYN of a flow that had a stream and
\* has one after the call
StepOnFlow ==
    /\ Called
    /\ last.pre # None
    /\ ~HasFlag(last.pkt.flags, TCP_SYN)
    /\ IsSome(StreamOf(last.pkt.key))

\* C35: a packet without SYN moves next_seq by the number of bytes the call
\* returns (a pure ACK leaves it in place), and what was delivered is no
\* longer buffered: no segment is buffered at a position from the old
\* next_seq up to, and not including, the new one.
C35_OrderedDeliveryStep ==
    StepOnFlow =>
        /\ Post.next_seq = wrapping_add(Pre.next_seq, returned_bytes)
        /\ \A d \in 0 .. (returned_bytes - 1) :
              wrapping_add(Pre.next_seq, d) \notin DOMAIN Post.segments


(***************************************************************************)
(* Established under data segments, under SpecFlags.                       *)
(***************************************************************************)
\* handle_tcp_flags has processed, in state Established, a packet whose
\* flags are ACK, PSH or both
DataOnEstablished ==
    /\ IsSome(fsm.post)
    /\ Unwrap(fsm.pre).state = "Established"
    /\ fsm.flags \in {TCP_ACK, TCP_PSH, TCP_PSH + TCP_ACK}

\* C36: a stream in state Established stays in Established when it observes
\* a segment whose flags are ACK, PSH or both (no FIN, no RST).
C36_EstablishedStable ==
    DataOnEstablished => Unwrap(fsm.post).state = "Established"


\* the fragments stored in the group have pairwise disjoint byte ranges
Disjoint(fragments) ==
    \A o \in DOMAIN fragments, q \in DOMAIN fragments :
        o # q => byte_range(fragments[o]) \cap byte_range(fragments[q]) = {}

\* C37: after any sequence of add_fragment calls under any policy, the
\* fragments stored in the group have pairwise disjoint byte ranges
\* [off*8, off*8+len).
C37_FragmentsDisjoint == Disjoint(fg.group.fragments)


(***************************************************************************)
(* SpecLookup: the packets of Spec, and between them calls of              *)
(* ShardedTcpReassembler::get_reassembled_data for any key.  A lookup      *)
(* records in last the stream the key's flow has and the shard it read.    *)
(***************************************************************************)
\* the loop of get_hash_shard_index over the bytes of the key (wrapping u64
\* arithmetic), reduced modulo 2520 like DefaultHash; usize is 64 bits wide
OneAtATimeHash(key) ==
    CASE key = K1 -> 498
      [] key = K2 -> 2472
      [] key = K3 -> 1864
      [] key = K4 -> 792

get_hash_shard_index(stream_key) == OneAtATimeHash(stream_key) % ShardCount

RECURSIVE concat_segments(_, _)
\* the data of the segments whose seq is in seqs, in ascending order of seq
concat_segments(segments, seqs) ==
    IF seqs = {} THEN << >>
    ELSE segments[Min(seqs)].data \o concat_segments(segments, seqs \ {Min(seqs)})

\* TcpReassembler::get_reassembled_data
get_reassembled_data(r, key) ==
    IF key \notin DOMAIN r.streams THEN None
    ELSE IF r.streams[key].reassembled_data # << >>
         THEN Some(r.streams[key].reassembled_data)
         ELSE IF concat_segments(r.streams[key].segments,
                                 DOMAIN r.streams[key].segments) # << >>
              THEN Some(concat_segments(r.streams[key].segments,
                                        DOMAIN r.streams[key].segments))
              ELSE None

\* ShardedTcpReassembler::get_reassembled_data
sharded_get_reassembled_data(sh, stream_key) ==
    get_reassembled_data(sh[get_hash_shard_index(stream_key)], stream_key)

Lookup ==
    /\ \E key \in FlowKeys :
          /\ ret' = sharded_get_reassembled_data(shards, key)
          /\ last' = [op |-> "get_reassembled_data", pkt |-> [NoPacket EXCEPT !.key = key],
                      pre |-> StreamOf(key), shard |-> get_hash_shard_index(key)]
    /\ UNCHANGED << shards, stream_stats, now, npkts, routed, overflowed, solo, log, inflight,
                    plan, pool_vars, other_vars >>

NextLookup == ProcessPacket \/ Return \/ Lookup

SpecLookup == Init /\ [][NextLookup]_vars

LookedUp == last.op = "get_reassembled_data"

\* C38: get_reassembled_data(key) reads the shard that process_packet uses
\* for the key, and returns the reassembled data of the key's flow when the
\* flow is resident and has delivered data.
C38_LookupOwningShard ==
    LookedUp =>
        /\ last.shard = get_smart_shard_index(last.pkt.key, last.pkt)
        /\ (IsSome(last.pre) /\ Unwrap(last.pre).reassembled_data # << >>) =>
              ret = Some(Unwrap(last.pre).reassembled_data)


(***************************************************************************)
(* SpecPaths: two PacketProcessors are handed the same frames, one through *)
(* process_packet, frame by frame, the other through the loop of           *)
(* process_batch.  A frame is a decoded packet: the IP fields the          *)
(* defragmenter reads and the key, seq and flags of its TCP header.  The   *)
(* frames are unfragmented one-byte segments of one flow and the two       *)
(* fragments of a 12-byte datagram of that flow.  The clock stands still,  *)
(* so that no timestamp tells the two processors apart.                    *)
(***************************************************************************)
MaxFrames == 3

Frame(offset, more_fragments, payload, seq) ==
    [source_ip |-> 168430090, dest_ip |-> 185273099, identification |-> 1,
     fragment_offset |-> offset, more_fragments |-> more_fragments,
     protocol |-> PROTO_TCP, total_length |-> u16(IP_HEADER_LEN + Len(payload)),
     payload |-> payload, key |-> K1, seq |-> seq, flags |-> PSH_ACK]

Frames ==
    { Frame(0, FALSE, Fill(1, 1), q) : q \in {8, 9} }
    \cup { Frame(0, TRUE, Fill(8, 1), 8), Frame(1, FALSE, Fill(4, 2), 8) }

\* the test both paths make: ip_header.more_fragments || fragment_offset > 0
is_fragment(decoded) == decoded.more_fragments \/ decoded.fragment_offset > 0

\* TransportProtocol::TCP of a decoded packet, as the reassembler reads it
tcp_of(decoded) ==
    [key |-> decoded.key, seq |-> decoded.seq, flags |-> decoded.flags,
     payload |-> decoded.payload]

\* self.reassembler.process_packet(&decoded) and the result's data
to_reassembler(p, decoded, t) ==
    LET s == sharded_process_packet(p.shards, p.stream_stats, tcp_of(decoded), t)
    IN  [p EXCEPT !.shards = s.shards, !.stream_stats = s.stream_stats,
                  !.results = Append(@, s.ret)]

\* PacketProcessor::process_packet on a fragment: the defragmenter, and the
\* payload of the datagram it completed as the result's data
single_fragment(p, decoded, t) ==
    LET r == defrag_process_packet(p.defrag, decoded, t)
    IN  [p EXCEPT !.defrag = r.d,
                  !.results = Append(@, IF r.ret.ok /\ IsSome(r.ret.val)
                                        THEN Some(Unwrap(r.ret.val).payload)
                                        ELSE None)]

\* one pass of the loop of PacketProcessor::process_batch
batch_frame(p, decoded, t) ==
    IF is_fragment(decoded)
    THEN LET r == defrag_process_packet(p.defrag, decoded, t)
         IN  IF r.ret.ok /\ IsSome(r.ret.val)
             THEN to_reassembler([p EXCEPT !.defrag = r.d], Unwrap(r.ret.val), t)
             ELSE [p EXCEPT !.defrag = r.d, !.results = Append(@, None)]
    ELSE to_reassembler(p, decoded, t)

\* a frame is handed to both processors.  process_packet is called on each
\* frame in turn: not while the submit of the frame before stands in
\* send().await.  For a frame that is no fragment it returns no data and
\* calls WorkerPool::submit, which moves the cursor under its mutex and
\* goes on to send().await.
PathsFrame ==
    /\ Len(paths.batch.results) < MaxFrames
    /\ paths.sending = None
    /\ \E f \in Frames :
          IF is_fragment(f)
          THEN paths' = [paths EXCEPT !.single = single_fragment(@, f, now),
                                      !.batch = batch_frame(@, f, now)]
          ELSE paths' = [paths EXCEPT
                            !.single.results = Append(@, None),
                            !.sending = Some([worker |-> paths.next_worker, frame |-> f]),
                            !.next_worker = (@ + 1) % NumWorkers,
                            !.batch = batch_frame(@, f, now)]
    /\ UNCHANGED << reassembler_vars, plan, pool_vars, defrag_vars, swept, lock_vars,
                    life_vars, bg_vars, cmp_vars, fsm, fg, rw >>

\* the send().await of the submit completes: the worker's channel has room
PathsSend ==
    /\ IsSome(paths.sending)
    /\ Len(paths.mailbox[Unwrap(paths.sending).worker]) < MailboxCap
    /\ paths' = [paths EXCEPT
                    !.mailbox[Unwrap(paths.sending).worker] =
                        Append(@, Unwrap(paths.sending).frame),
                    !.sending = None]
    /\ UNCHANGED << reassembler_vars, plan, pool_vars, defrag_vars, swept, lock_vars,
                    life_vars, bg_vars, cmp_vars, fsm, fg, rw >>

\* recv() of worker w takes the first frame of its mailbox
PathsRecv(w) ==
    /\ paths.hand[w] = None
    /\ paths.mailbox[w] # << >>
    /\ paths' = [paths EXCEPT
                    !.hand[w] = Some([at |-> "received", frame |-> Head(paths.mailbox[w]),
                                      ret |-> None]),
                    !.mailbox[w] = Tail(@)]
    /\ UNCHANGED << reassembler_vars, plan, pool_vars, defrag_vars, swept, lock_vars,
                    life_vars, bg_vars, cmp_vars, fsm, fg, rw >>

\* Worker::process_packet on the frame in hand: process_tcp_stream hands it
\* to the reassembler, whose shard handles it under its guard
PathsWorker(w) ==
    /\ IsSome(paths.hand[w])
    /\ Unwrap(paths.hand[w]).at = "received"
    /\ LET r == sharded_process_packet(paths.single.shards, paths.single.stream_stats,
                                       tcp_of(Unwrap(paths.hand[w]).frame), now)
       IN  paths' = [paths EXCEPT
                        !.single.shards = r.shards,
                        !.hand[w] = Some([Unwrap(@) EXCEPT !.at = "unlocked",
                                                           !.ret = r.ret])]
    /\ UNCHANGED << reassembler_vars, plan, pool_vars, defrag_vars, swept, lock_vars,
                    life_vars, bg_vars, cmp_vars, fsm, fg, rw >>

\* the rest of the reassembler's call, with the shard unlocked:
\* update_stream_stats when the shard returned data; the worker drops what
\* comes back
PathsReturns(w) ==
    /\ IsSome(paths.hand[w])
    /\ Unwrap(paths.hand[w]).at = "unlocked"
    /\ paths' = [paths EXCEPT
                    !.single.stream_stats =
                        IF IsSome(Unwrap(paths.hand[w]).ret)
                        THEN update_stream_stats(@, Unwrap(paths.hand[w]).frame.key,
                                                 Len(Unwrap(Unwrap(paths.hand[w]).ret)),
                                                 now)
                        ELSE @,
                    !.hand[w] = None]
    /\ UNCHANGED << reassembler_vars, plan, pool_vars, defrag_vars, swept, lock_vars,
                    life_vars, bg_vars, cmp_vars, fsm, fg, rw >>

\* IpDefragmenter::with_policy
IpDefragmenter_with_policy(policy) == [IpDefragmenter_new EXCEPT !.policy = policy]

\* what update_config makes of a ProcessorConfig: a new defragmenter
configured(policy, groups) == set_max_groups(IpDefragmenter_with_policy(policy), groups)

\* PacketProcessor::update_config on both processors, with one
\* ProcessorConfig that changes the defragmenter of either
PathsUpdateConfig ==
    /\ \E policy \in FragmentPolicies : \E groups \in GroupCaps \cup {max_groups} :
          /\ \/ paths.single.defrag # configured(policy, groups)
             \/ paths.batch.defrag # configured(policy, groups)
          /\ paths' = [paths EXCEPT !.single.defrag = configured(policy, groups),
                                    !.batch.defrag = configured(policy, groups)]
    /\ UNCHANGED << reassembler_vars, plan, pool_vars, defrag_vars, swept, lock_vars,
                    life_vars, bg_vars, cmp_vars, fsm, fg, rw >>

NextPaths ==
    \/ PathsFrame
    \/ PathsSend
    \/ \E w \in Workers : PathsRecv(w)
    \/ \E w \in Workers : PathsWorker(w)
    \/ \E w \in Workers : PathsReturns(w)
    \/ PathsUpdateConfig

SpecPaths == Init /\ [][NextPaths]_vars

\* every submitted frame has been processed by its worker
PathsDrained ==
    /\ paths.sending = None
    /\ \A w \in Workers : paths.mailbox[w] = << >> /\ paths.hand[w] = None

\* C39: once the workers have processed what process_packet submitted, the
\* two processors have produced the same data per frame and their
\* defragmenters and reassemblers are in the same state.
C39_PathsAgree == PathsDrained => paths.single = paths.batch

(***************************************************************************)
(* SpecCallers: threads call process_packet, cleanup_all, get_shard_stats, *)
(* get_health_status and get_reassembled_data of one                       *)
(* ShardedTcpReassembler at any time.  A call takes the RwLock of a shard  *)
(* (write for the first two, read for the others), runs the lock steps of  *)
(* the TcpReassembler method under it, and drops the guard; the three that *)
(* loop over the shards go on to the next shard; process_packet goes on to *)
(* update_stream_stats when the shard returned data.  The locks inside a   *)
(* shard are the DashMap of streams, the RwLock of a stream, the DashMap   *)
(* of statistics, the Mutex of the segment pool and the data mutex of a    *)
(* segment, one of each per shard.                                         *)
(***************************************************************************)
CallerOps ==
    {"process_packet", "cleanup_all", "cleanup_stats", "get_shard_stats",
     "get_stream_stats", "get_all_stats", "reset_stats", "get_health_status",
     "get_reassembled_data"}

\* the calls that take a shard's lock; the others only use the statistics
\* map of the sharded reassembler
takes_shard(op) ==
    op \in {"process_packet", "cleanup_all", "get_shard_stats", "get_health_status",
            "get_reassembled_data"}

\* shard.write() in process_packet and cleanup_all, shard.read() elsewhere
shard_mode(op) == IF op \in {"process_packet", "cleanup_all"} THEN "w" ELSE "r"

\* the calls that loop over all shards
loops_over_shards(op) == op \in {"cleanup_all", "get_shard_stats", "get_health_status"}

\* the line of stream.rs at which a call takes its first lock
entry_line(op) ==
    CASE op = "process_packet" -> 238
      [] op = "cleanup_all" -> 283
      [] op = "cleanup_stats" -> 306
      [] op = "get_shard_stats" -> 312
      [] op = "get_stream_stats" -> 336
      [] op = "get_all_stats" -> 341
      [] op = "reset_stats" -> 349
      [] op = "get_health_status" -> 357
      [] op = "get_reassembled_data" -> 398

\* the first lock step under the shard's guard: the line of stream.rs that
\* calls the TcpReassembler, then the line of stream_tcp.rs it reaches
first_inside(op) ==
    CASE op = "process_packet" -> << 239, 554 >>
      [] op = "cleanup_all" -> << 284, 1073 >>
      [] op = "get_shard_stats" -> << 313, 1073 >>
      [] op = "get_health_status" -> << 358, 1073 >>
      [] op = "get_reassembled_data" -> << 399, 1100 >>

\* the line of stream.rs at which the shard's guard goes out of scope
guard_end(op) ==
    CASE op = "process_packet" -> << 240 >>
      [] op = "cleanup_all" -> << 293 >>
      [] op = "get_shard_stats" -> << 314 >>
      [] op = "get_health_status" -> << 364 >>
      [] op = "get_reassembled_data" -> << 400 >>

\* the statistics map of the sharded reassembler: entry() and clear() write,
\* get() and iter() read
stats_mode(line) == IF line \in {245, 306, 349} THEN "w" ELSE "r"

Acq(l, mode) == [kind |-> "acquire", lock |-> l, mode |-> mode]
Rel(l) == [kind |-> "release", lock |-> l, mode |-> ""]

\* a lock taken and released by one call on the map, the stream or the
\* segment
Touch(l, mode) == [kind |-> "touch", lock |-> l, mode |-> mode]

\* the lock step of a line of stream_tcp.rs; -n is the end of the scope of
\* the guard taken at line n. Lines 125 (TcpSegment::new), 145
\* (TcpSegment::len) and 156 (Drop for TcpSegment) lock the data mutex of
\* a segment's block
lock_steps(line) ==
    CASE line \in {554, 565, 632, 1073} -> Touch("streams", "r")
      [] line \in {598, 784, 807} -> Touch("streams", "w")
      [] line \in {616, 739, 798, 1100} -> Acq("streams", "r")
      [] line \in {-616, -739, -798, -1100} -> Rel("streams")
      [] line \in {617, 637, 740} -> Acq("stream", "w")
      [] line = 1101 -> Acq("stream", "r")
      [] line = 799 -> Touch("stream", "r")
      [] line \in {-617, -637, -740, -1101} -> Rel("stream")
      [] line \in {506, 610, 648, 746} -> Touch("stream_stats", "w")
      [] line = 234 -> Acq("segment_pool", "w")
      [] line = -234 -> Rel("segment_pool")
      [] line \in {125, 145, 156, 247, 454, 1113} -> Touch("data", "w")

\* A position under the shard's guard is the path of line numbers from the
\* method of the sharded reassembler down to the line of the next lock
\* step; a return line before -n says which return ends the guard's scope.
\* Each operator below gives, for the positions of one function called at
\* the path pre, the positions that may follow. A loop over the streams of
\* a map or the segments of a stream is a position that may follow itself:
\* how often is decided by data no other thread can change while the guard
\* around the loop is held.

\* get_segment_from_pool: the pool's mutex is held while the data mutex of
\* the segment popped (247) or made (257, 125) is taken
get_segment_from_pool_locks(pre, after) ==
    (pre \o << 234 >>) :> {pre \o << 247 >>, pre \o << 257, 125 >>}
    @@ (pre \o << 247 >>) :> {pre \o << -234 >>}
    @@ (pre \o << 257, 125 >>) :> {pre \o << -234 >>}
    @@ (pre \o << -234 >>) :> after

\* handle_in_order_segment: the data mutex of every segment in sequence,
\* the drop of every segment removed, then stream_stats.get_mut
handle_in_order_segment_locks(pre, after) ==
    (pre \o << 454 >>) :> {pre \o << 454 >>, pre \o << 480, 156 >>}
    @@ (pre \o << 480, 156 >>) :> {pre \o << 480, 156 >>, pre \o << 506 >>}
    @@ (pre \o << 506 >>) :> after

\* handle_overlapping_segment: len() of every overlapping segment, then
\* either the first segment kept ends the call (the new one is discarded)
\* or every overlapping segment is removed and dropped
handle_overlapping_segment_locks(pre, discard, replace) ==
    (pre \o << 333, 145 >>) :>
        {pre \o << 333, 145 >>, pre \o << 385, 156 >>, discard}
    @@ (pre \o << 385, 156 >>) :> {pre \o << 385, 156 >>, discard, replace}

\* find_and_remove_oldest_stream: stream.read() under streams.iter(), then
\* streams.remove, which drops the stream with its segments
find_and_remove_oldest_stream_locks(pre, after) ==
    (pre \o << 798 >>) :> {pre \o << 799 >>, pre \o << -798 >>}
    @@ (pre \o << 799 >>) :> {pre \o << 799 >>, pre \o << -798 >>}
    @@ (pre \o << -798 >>) :> ({pre \o << 807 >>} \cup after)
    @@ (pre \o << 807 >>) :> ({pre \o << 807, 156 >>} \cup after)
    @@ (pre \o << 807, 156 >>) :> ({pre \o << 807, 156 >>} \cup after)

\* TcpReassembler::process_packet: a packet of an unknown key that is
\* skipped (559), a new stream (565-629), a retransmission (648-651), an
\* in-order segment (666-675), an overlap that is replaced (699-710) or
\* discarded (715), a segment out of order (721)
process_packet_locks(pre, after) ==
    (pre \o << 554 >>) :> ({pre \o << 565 >>, pre \o << 632 >>} \cup after)
    @@ (pre \o << 565 >>) :> {pre \o << 567, 798 >>, pre \o << 598 >>}
    @@ find_and_remove_oldest_stream_locks(pre \o << 567 >>, {pre \o << 598 >>})
    @@ (pre \o << 598 >>) :> {pre \o << 610 >>}
    @@ (pre \o << 610 >>) :> {pre \o << 616 >>}
    @@ (pre \o << 616 >>) :> {pre \o << 617 >>}
    @@ (pre \o << 617 >>) :> {pre \o << 618, 234 >>}
    @@ get_segment_from_pool_locks(pre \o << 618 >>, {pre \o << 627, 454 >>})
    @@ handle_in_order_segment_locks(pre \o << 627 >>, {pre \o << 629, -617 >>})
    @@ (pre \o << 629, -617 >>) :> {pre \o << 629, -616 >>}
    @@ (pre \o << 629, -616 >>) :> after
    @@ (pre \o << 632 >>) :> {pre \o << 637 >>}
    @@ (pre \o << 637 >>) :> {pre \o << 648 >>, pre \o << 654, 234 >>}
    @@ (pre \o << 648 >>) :> {pre \o << 651, -637 >>}
    @@ (pre \o << 651, -637 >>) :> after
    @@ get_segment_from_pool_locks(pre \o << 654 >>,
                             {pre \o << 655, 156 >>, pre \o << 666, 454 >>,
                              pre \o << 694, 333, 145 >>, pre \o << 721, -637 >>})
    @@ (pre \o << 655, 156 >>) :>
          {pre \o << 666, 454 >>, pre \o << 694, 333, 145 >>, pre \o << 721, -637 >>}
    @@ handle_in_order_segment_locks(pre \o << 666 >>, {pre \o << 675, -637 >>})
    @@ (pre \o << 675, -637 >>) :> after
    @@ handle_overlapping_segment_locks(pre \o << 694 >>, pre \o << 715, -637 >>,
                                  pre \o << 699, 234 >>)
    @@ get_segment_from_pool_locks(pre \o << 699 >>,
                             {pre \o << 700, 156 >>, pre \o << 708, 454 >>})
    @@ (pre \o << 700, 156 >>) :> {pre \o << 708, 454 >>}
    @@ handle_in_order_segment_locks(pre \o << 708 >>, {pre \o << 710, -637 >>})
    @@ (pre \o << 710, -637 >>) :> after
    @@ (pre \o << 715, -637 >>) :> after
    @@ (pre \o << 721, -637 >>) :> after

\* cleanup_expired: under streams.iter() and stream.write(), an expired
\* stream loses its statistics and its segments (746, 751), a live one its
\* old segments (776); then streams.remove of every expired key, whose
\* segments are gone by then
cleanup_expired_locks(pre, after) ==
    (pre \o << 739 >>) :> {pre \o << 740 >>, pre \o << -739 >>}
    @@ (pre \o << 740 >>) :> {pre \o << 746 >>, pre \o << 776, 156 >>, pre \o << -740 >>}
    @@ (pre \o << 746 >>) :> {pre \o << 751, 156 >>, pre \o << -740 >>}
    @@ (pre \o << 751, 156 >>) :> {pre \o << 751, 156 >>, pre \o << -740 >>}
    @@ (pre \o << 776, 156 >>) :> {pre \o << 776, 156 >>, pre \o << -740 >>}
    @@ (pre \o << -740 >>) :> {pre \o << 740 >>, pre \o << -739 >>}
    @@ (pre \o << -739 >>) :> ({pre \o << 784 >>} \cup after)
    @@ (pre \o << 784 >>) :> ({pre \o << 784 >>} \cup after)

\* TcpReassembler::get_reassembled_data: streams.get held over
\* stream.read() and the data mutex of every segment
get_reassembled_data_locks(pre, after) ==
    (pre \o << 1100 >>) :> {pre \o << 1101 >>, pre \o << -1100 >>}
    @@ (pre \o << 1101 >>) :> {pre \o << 1113 >>, pre \o << -1101 >>}
    @@ (pre \o << 1113 >>) :> {pre \o << 1113 >>, pre \o << -1101 >>}
    @@ (pre \o << -1101 >>) :> {pre \o << -1100 >>}
    @@ (pre \o << -1100 >>) :> after

\* the positions under a shard's guard and those that may follow each
Scripts ==
    process_packet_locks(<< 239 >>, {guard_end("process_packet")})
    @@ << 284, 1073 >> :> {<< 285, 739 >>}
    @@ cleanup_expired_locks(<< 285 >>, {<< 286, 1073 >>})
    @@ << 286, 1073 >> :> {guard_end("cleanup_all")}
    @@ << 313, 1073 >> :> {guard_end("get_shard_stats")}
    @@ << 358, 1073 >> :> {guard_end("get_health_status")}
    @@ get_reassembled_data_locks(<< 399 >>, {guard_end("get_reassembled_data")})

\* cleanup_expired, lines 742 and 783: streams.remove runs for the keys
\* pushed at 742, so only when a stream of the shard has expired
removes_expired(at, to, expired) ==
    (at = << 285, -739 >> \/ to = << 285, 784 >>) => (to = << 285, 784 >>) = expired

\* what TcpReassembler::process_packet returns: handle_in_order_segment
\* gives Some when a segment had data, the discarded overlap always, the
\* other returns never
returns_data(at) ==
    CASE at[Len(at) - 1] \in {629, 675, 710} -> BOOLEAN
      [] at[Len(at) - 1] = 715 -> {TRUE}
      [] OTHER -> {FALSE}

\* RwLock: a writer needs the lock free, a reader needs no writer
can_acquire(h, mode) == IF mode = "w" THEN h = NoHolder ELSE h.w = 0
acquired(h, c, mode) == IF mode = "w" THEN [h EXCEPT !.w = c] ELSE [h EXCEPT !.r = @ \cup {c}]
released(h, c) == [w |-> IF h.w = c THEN 0 ELSE h.w, r |-> h.r \ {c}]
holds(h, c) == h.w = c \/ c \in h.r
holders(h) == (IF h.w = 0 THEN {} ELSE {h.w}) \cup h.r

\* a variant of the end of a loop iteration that keeps the shard's guard
guard_kept(held, i, c) == held

\* the shard's guard goes out of scope: at the end of the block in
\* process_packet, of the loop body in cleanup_all, get_shard_stats and
\* get_health_status, and of the if-let in get_reassembled_data
guard_dropped(held, i, c) == [held EXCEPT ![i] = released(@, c)]

Busy(c) == rw.th[c].op # "idle"
\* the caller stands before shard.write() or shard.read()
AtShardLock(c) ==
    Busy(c) /\ takes_shard(rw.th[c].op) /\ rw.th[c].at = << entry_line(rw.th[c].op) >>
\* the caller runs the TcpReassembler's method under the guard
UnderGuard(c) == Busy(c) /\ Len(rw.th[c].at) > 1
\* the method under the guard has returned
AtGuardEnd(c) ==
    Busy(c) /\ takes_shard(rw.th[c].op) /\ rw.th[c].at = guard_end(rw.th[c].op)
\* the caller stands before a call on the sharded statistics map:
\* process_packet, the guard dropped, before update_stream_stats, or one
\* of the statistics calls
AtStats(c) ==
    Busy(c) /\ Len(rw.th[c].at) = 1 /\ rw.th[c].at[1] \in {245, 306, 336, 341, 349}

\* a call begins: process_packet and get_reassembled_data at the shard of
\* their key, the others at shard 0
StartCall(c) ==
    /\ ~Busy(c)
    /\ \E o \in CallerOps, i \in Shards :
          /\ (loops_over_shards(o) \/ ~takes_shard(o)) => i = 0
          /\ rw' = [rw EXCEPT !.th[c] = [CallerIdle EXCEPT !.op = o, !.shard = i,
                                                           !.at = << entry_line(o) >>]]
    /\ UNCHANGED << reassembler_vars, plan, pool_vars, defrag_vars, swept, lock_vars,
                    life_vars, bg_vars, cmp_vars, fsm, fg, paths >>

\* shard.write() or shard.read() returns
LockShardOf(c) ==
    /\ AtShardLock(c)
    /\ can_acquire(rw.shard[rw.th[c].shard], shard_mode(rw.th[c].op))
    /\ rw' = [rw EXCEPT !.shard[rw.th[c].shard] = acquired(@, c, shard_mode(rw.th[c].op)),
                        !.th[c].at = first_inside(rw.th[c].op)]
    /\ UNCHANGED << reassembler_vars, plan, pool_vars, defrag_vars, swept, lock_vars,
                    life_vars, bg_vars, cmp_vars, fsm, fg, paths >>

\* the lock step the caller stands at
StepOf(c) == lock_steps(rw.th[c].at[Len(rw.th[c].at)])

\* the next lock step of the method that runs under the guard
CanStepInside(c) ==
    /\ UnderGuard(c)
    /\ StepOf(c).kind # "release" =>
          can_acquire(rw.inner[rw.th[c].shard][StepOf(c).lock], StepOf(c).mode)

StepInside(c) ==
    /\ CanStepInside(c)
    /\ \E to \in Scripts[rw.th[c].at], some \in BOOLEAN :
          /\ removes_expired(rw.th[c].at, to, rw.th[c].expired)
          /\ some \in (IF to = << 240 >> THEN returns_data(rw.th[c].at) ELSE {FALSE})
          /\ rw' = [rw EXCEPT
                      !.inner[rw.th[c].shard][StepOf(c).lock] =
                          CASE StepOf(c).kind = "acquire" -> acquired(@, c, StepOf(c).mode)
                            [] StepOf(c).kind = "release" -> released(@, c)
                            [] OTHER -> @,
                      !.th[c] = [@ EXCEPT !.at = to, !.some = some,
                                          !.expired = @ \/ to = << 285, 746 >>]]
    /\ UNCHANGED << reassembler_vars, plan, pool_vars, defrag_vars, swept, lock_vars,
                    life_vars, bg_vars, cmp_vars, fsm, fg, paths >>

\* the guard is dropped; a loop goes on to the next shard, process_packet
\* to update_stream_stats when the shard returned data; any other call
\* returns
DropGuard(c) ==
    /\ AtGuardEnd(c)
    /\ rw' = [rw EXCEPT
                !.shard = guard_dropped(@, rw.th[c].shard, c),
                !.th[c] =
                    IF loops_over_shards(rw.th[c].op) /\ rw.th[c].shard + 1 < ShardCount
                    THEN [@ EXCEPT !.shard = @ + 1, !.at = << entry_line(rw.th[c].op) >>,
                                   !.expired = FALSE]
                    ELSE IF rw.th[c].op = "process_packet" /\ rw.th[c].some
                    THEN [@ EXCEPT !.at = << 245 >>, !.some = FALSE]
                    ELSE CallerIdle]
    /\ UNCHANGED << reassembler_vars, plan, pool_vars, defrag_vars, swept, lock_vars,
                    life_vars, bg_vars, cmp_vars, fsm, fg, paths >>

\* a call on the sharded statistics map: update_stream_stats (445-450),
\* cleanup_stats, get_stream_stats, get_all_stats, reset_stats; the map's
\* lock is taken and released, and the call returns
UpdateStats(c) ==
    /\ AtStats(c)
    /\ can_acquire(rw.stats, stats_mode(rw.th[c].at[1]))
    /\ rw' = [rw EXCEPT !.th[c] = CallerIdle]
    /\ UNCHANGED << reassembler_vars, plan, pool_vars, defrag_vars, swept, lock_vars,
                    life_vars, bg_vars, cmp_vars, fsm, fg, paths >>

NextCallers ==
    \E c \in Callers :
        StartCall(c) \/ LockShardOf(c) \/ StepInside(c) \/ DropGuard(c) \/ UpdateStats(c)

SpecCallers == Init /\ [][NextCallers]_vars

ShardsHeldBy(c) == { i \in Shards : holds(rw.shard[i], c) }

\* a caller holds at most one shard lock, and none while it waits for one
\* or runs a call on the statistics map
OneShardLock ==
    \A c \in Callers :
        /\ Cardinality(ShardsHeldBy(c)) <= 1
        /\ (~Busy(c) \/ AtShardLock(c) \/ AtStats(c)) => ShardsHeldBy(c) = {}

\* a lock inside a shard is held only by a call that runs under the
\* shard's lock, and none is held when the shard's guard is about to be
\* dropped or has been
InnerUnderShard ==
    \A i \in Shards, l \in InnerLocks : \A c \in holders(rw.inner[i][l]) :
        holds(rw.shard[i], c) /\ UnderGuard(c) /\ rw.th[c].shard = i

\* a call that holds a shard lock can take its next step, and a call that
\* waits for a shard lock waits for holders that can
CanProceed(c) ==
    \/ CanStepInside(c)
    \/ AtGuardEnd(c)
    \/ (AtStats(c) /\ can_acquire(rw.stats, stats_mode(rw.th[c].at[1])))
NoneStuck ==
    \A c \in Callers :
        Busy(c) =>
            \/ CanProceed(c)
            \/ /\ AtShardLock(c)
               /\ \/ can_acquire(rw.shard[rw.th[c].shard], shard_mode(rw.th[c].op))
                  \/ \E o \in Callers \ {c} :
                        holds(rw.shard[rw.th[c].shard], o) /\ CanProceed(o)

\* C40: with callers in process_packet, cleanup_all, get_shard_stats,
\* get_health_status, get_reassembled_data and the statistics calls at the
\* same time, no call waits for a shard lock while it holds another
\* shard's lock, the locks taken inside a shard are released before the
\* shard's lock, and no call is ever stuck: every call that holds a shard
\* lock can take its next step, whichever branch it runs and whichever
\* segment it drops, so every wait for a shard lock ends when its holders
\* have dropped it.
C40_NoDeadlock == OneShardLock /\ InnerUnderShard /\ NoneStuck

\* a cleanup_all pass holds shard 1 and, inside it, the streams map and an
\* expired stream whose segments it is about to drop, while a
\* process_packet call waits for shard 1
C40_Witness ==
    \E c \in Callers, o \in Callers :
        /\ rw.th[c].op = "cleanup_all" /\ rw.th[c].shard = 1
        /\ rw.th[c].at = << 285, 751, 156 >>
        /\ \A l \in {"streams", "stream"} : holds(rw.inner[1][l], c)
        /\ rw.th[o].op = "process_packet" /\ rw.th[o].shard = 1 /\ AtShardLock(o)

============================================================================
